---- MODULE Spec2Model ----
(***************************************************************************)
(* Dump/restore orchestration of dump-restore-tool (backend/app).          *)
(*                                                                         *)
(* Strings the code takes apart (file names, container names, image names, *)
(* port mappings) are sequences of tokens; Join gives the string they      *)
(* spell.  Python's None is the value None; a dict is a function whose     *)
(* DOMAIN is the set of keys present.                                      *)
(***************************************************************************)
EXTENDS Integers, Sequences, FiniteSets, TLC

\* ------------------------------------------------------------------------
\* Python values
\* ------------------------------------------------------------------------

\* Python's None (no input string of the model spells it).
None == "None"

\* bool(v) of an Optional[str]: None and '' are false.
Truthy(v) == v # None /\ v # ""

\* d.get(k, default)
Get(d, k, default) == IF k \in DOMAIN d THEN d[k] ELSE default

\* d[k] = v on a dict
Put(d, k, v) == [x \in (DOMAIN d) \cup {k} |-> IF x = k THEN v ELSE d[x]]

\* ''.join(tokens)
RECURSIVE Join(_)
Join(s) == IF s = <<>> THEN "" ELSE Head(s) \o Join(Tail(s))

\* ------------------------------------------------------------------------
\* core/utils.py: sanitize_filename, DB_CONFIGS, path resolvers
\* ------------------------------------------------------------------------

\* The characters of [a-zA-Z0-9_-].
SafeChars ==
    { "a","b","c","d","e","f","g","h","i","j","k","l","m","n","o","p","q","r",
      "s","t","u","v","w","x","y","z",
      "A","B","C","D","E","F","G","H","I","J","K","L","M","N","O","P","Q","R",
      "S","T","U","V","W","X","Y","Z",
      "0","1","2","3","4","5","6","7","8","9","_","-" }

\* re.sub(r"[^a-zA-Z0-9_-]", "_", s)
ReplaceUnsafe(s) == [i \in 1..Len(s) |-> IF s[i] \in SafeChars THEN s[i] ELSE "_"]

\* re.sub(r"_+", "_", s)
RECURSIVE CollapseUnderscores(_)
CollapseUnderscores(s) ==
    IF Len(s) < 2 THEN s
    ELSE IF s[1] = "_" /\ s[2] = "_" THEN CollapseUnderscores(Tail(s))
    ELSE <<s[1]>> \o CollapseUnderscores(Tail(s))

\* s.lstrip("_")
RECURSIVE LStrip(_)
LStrip(s) == IF s # <<>> /\ Head(s) = "_" THEN LStrip(Tail(s)) ELSE s

\* s.rstrip("_")
RECURSIVE RStrip(_)
RStrip(s) ==
    IF s # <<>> /\ s[Len(s)] = "_" THEN RStrip(SubSeq(s, 1, Len(s) - 1)) ELSE s

\* s.strip("_")
Strip(s) == RStrip(LStrip(s))

\* sanitize_filename without the second re.sub
sanitize_filename_NoCollapse(filename) == Strip(ReplaceUnsafe(filename))

\* sanitize_filename with the strip done before the substitutions
sanitize_filename_StripFirst(filename) ==
    CollapseUnderscores(ReplaceUnsafe(Strip(filename)))

\* sanitize_filename(filename), on the characters of the name
sanitize_filename(filename) == Strip(CollapseUnderscores(ReplaceUnsafe(filename)))

\* DB_CONFIGS[db_type]["extension"] with a ".sql" default
DB_CONFIGS_extension_SqlDefault(db_type) ==
    CASE db_type = "mongodb"  -> ".bson"
      [] db_type = "redis"    -> ".rdb"
      [] db_type = "sqlite"   -> ".db"
      [] OTHER                -> ".sql"

\* DB_CONFIGS[db_type]["extension"], ".dump" for an unknown type
DB_CONFIGS_extension(db_type) ==
    CASE db_type = "postgres" -> ".sql"
      [] db_type = "mysql"    -> ".sql"
      [] db_type = "mongodb"  -> ".bson"
      [] db_type = "redis"    -> ".rdb"
      [] db_type = "sqlite"   -> ".db"
      [] OTHER                -> ".dump"

\* Directories of the model.
CfgDir       == "/home/Downloads/Database-dumps"
HomeDumpDir  == "~/Database-dumps"
TmpDir       == "/tmp"
DownloadsDir == "~/Downloads"

\* A file path os.path.join(dir, stem + ext); a sanitized stem holds no '.', so
\* path.endswith(ext) is a test of the ext field.
Path(dir, stem, ext) == [dir |-> dir, stem |-> stem, ext |-> ext]

\* get_dump_directory() in the environment e: the configured directory when it
\* can be created and written, the home directory's Database-dumps when the
\* write test fails, /tmp when a mkdir raises.
get_dump_directory(e) ==
    IF e.cfg = "nomkdir" THEN TmpDir
    ELSE IF e.cfg = "rw" THEN CfgDir
    ELSE IF e.home = "nomkdir" THEN TmpDir
    ELSE HomeDumpDir

\* get_consistent_path with sanitize_filename(config_name) for the stem
get_consistent_path_ConfigNameOnly(config_name, db_type, dump_file_name, e) ==
    Path(get_dump_directory(e), Join(sanitize_filename(config_name)),
         DB_CONFIGS_extension(db_type))

\* utils.get_consistent_path(config_name, db_type, dump_file_name), the
\* resolver of the dump side.  Names are sequences of characters; an absent
\* dump_file_name (None or '', both false) is the empty sequence.
get_consistent_path(config_name, db_type, dump_file_name, e) ==
    LET stem == sanitize_filename(IF dump_file_name # <<>>
                                  THEN dump_file_name ELSE config_name)
    IN  Path(get_dump_directory(e), Join(stem), DB_CONFIGS_extension(db_type))

\* restore_service._get_consistent_path(config_name, db_type, dump_file_name)
restore_get_consistent_path(config_name, db_type, dump_file_name) ==
    LET stem == IF dump_file_name # <<>>
                THEN Strip(CollapseUnderscores(ReplaceUnsafe(dump_file_name)))
                ELSE Strip(CollapseUnderscores(ReplaceUnsafe(config_name)))
        ext  == IF db_type = "postgres" \/ db_type = "mysql" THEN ".sql"
                ELSE IF db_type = "mongodb" THEN ".bson"
                ELSE IF db_type = "redis" THEN ".rdb"
                ELSE IF db_type = "sqlite" THEN ".db"
                ELSE ".dump"
    IN  Path(TmpDir, Join(stem), ext)

\* ------------------------------------------------------------------------
\* docker_compose_service.py: get_stack_database_info
\* ------------------------------------------------------------------------

\* Tokens that are runs of decimal digits (\d+).
DigitTokens ==
    { "15", "16", "8", "80", "8080", "5432", "5433", "3306", "6379", "6543", "27017" }

\* tok.lower(), for the tokens of image names
Lower(tok) ==
    CASE tok = "Postgres" -> "postgres"
      [] tok = "MySQL"    -> "mysql"
      [] OTHER            -> tok

\* `ident in image.lower()`: image names are cut so that an engine identifier
\* is a token of its own.
ImageHas(image, ident) == \E i \in 1..Len(image) : Lower(image[i]) = ident

\* The engine identifiers looked for, in the order of the conditional chain.
KnownEngines == << "postgres", "mysql", "mongodb", "redis" >>

\* The db_type conditional expression with mysql tested before postgres.
ClassifyImage_MysqlFirst(image) ==
    IF ImageHas(image, "mysql") THEN "mysql"
    ELSE IF ImageHas(image, "postgres") THEN "postgres"
    ELSE IF ImageHas(image, "mongodb") THEN "mongodb"
    ELSE IF ImageHas(image, "redis") THEN "redis"
    ELSE "unknown"

\* The db_type conditional expression of a database container.
ClassifyImage(image) ==
    IF ImageHas(image, "postgres") THEN "postgres"
    ELSE IF ImageHas(image, "mysql") THEN "mysql"
    ELSE IF ImageHas(image, "mongodb") THEN "mongodb"
    ELSE IF ImageHas(image, "redis") THEN "redis"
    ELSE "unknown"

\* any(db_type in image.lower() for db_type in [...])
IsDbImage(image) == \E k \in 1..Len(KnownEngines) : ImageHas(image, KnownEngines[k])

\* The db_containers list: one dict per container whose image names an engine,
\* in listing order.
RECURSIVE DbContainers(_)
DbContainers(containers) ==
    IF containers = <<>> THEN <<>>
    ELSE LET c == Head(containers)
         IN  (IF IsDbImage(c.Image)
              THEN << [name |-> c.Names, image |-> c.Image, id |-> c.ID,
                       ports |-> c.Ports, db_type |-> ClassifyImage(c.Image)] >>
              ELSE <<>>) \o DbContainers(Tail(containers))

\* The version search finding nothing.
PostgresVersion_None(image) == None

\* re.search(r"postgres:(\d+)", image): group 1, or None without a match.
PostgresVersion(image) ==
    LET hits == { i \in 1..(Len(image) - 2) :
                    /\ image[i] = "postgres"
                    /\ image[i + 1] = ":"
                    /\ image[i + 2] \in DigitTokens }
    IN  IF hits = {} THEN None
        ELSE image[(CHOOSE i \in hits : \A j \in hits : i <= j) + 2]

\* get_stack_database_info(stack_name), given what `docker ps` answered:
\* ps.status is "ok", "error" (non-zero return code, or the call raising) or
\* "badjson"; ps.containers is the parsed listing.
get_stack_database_info(ps) ==
    IF ps.status = "error"
    THEN [success |-> FALSE, message |-> "Failed to get containers for stack"]
    ELSE IF ps.status = "badjson"
    THEN [success |-> FALSE, message |-> "Failed to parse container information for stack"]
    ELSE LET db_containers == DbContainers(ps.containers)
         IN  IF db_containers = <<>>
             THEN [success |-> FALSE, message |-> "No database containers found in stack"]
             ELSE LET db_container == db_containers[1]
                  IN  [success          |-> TRUE,
                       message          |-> "Found database container in stack",
                       container        |-> db_container,
                       postgres_version |->
                           IF db_container.db_type = "postgres"
                           THEN PostgresVersion(db_container.image)
                           ELSE None]

\* ------------------------------------------------------------------------
\* restore_service.py: run_restore, parameter reconciliation
\* ------------------------------------------------------------------------

\* name.replace('/', '')
RemoveSlashes(name) == SelectSeq(name, LAMBDA t : t # "/")

\* re.search(r'(\d+)->\d+/', ports): group 1 of the leftmost match, or None.
PublishedPort(ports) ==
    LET hits == { i \in 1..(Len(ports) - 3) :
                    /\ ports[i] \in DigitTokens
                    /\ ports[i + 1] = "->"
                    /\ ports[i + 2] \in DigitTokens
                    /\ ports[i + 3] \in { "/tcp", "/udp" } }
    IN  IF hits = {} THEN None
        ELSE ports[CHOOSE i \in hits : \A j \in hits : i <= j]

\* Lines 58-78: the copy of params with database, password and username set.
ApplyCredentials(in) ==
    LET p1 == IF Truthy(in.local_database_name)
              THEN Put(in.params, "database", in.local_database_name)
              ELSE in.params
        p2 == Put(p1, "password", in.restore_password)
    IN  IF Truthy(in.restore_username)
        THEN Put(p2, "username", in.restore_username)
        ELSE p2

\* Lines 104-124: host, port and version of a stack-based restore.
ApplyStack(params, in, stack_info) ==
    LET container_info == stack_info.container
        p1 == Put(params, "host", Join(RemoveSlashes(container_info.name)))
        port == PublishedPort(container_info.ports)
        p2 == IF ~Truthy(in.restore_port) /\ container_info.ports # <<>> /\ port # None
              THEN Put(p1, "port", port)
              ELSE p1
    IN  IF container_info.db_type = "postgres" /\ Truthy(stack_info.postgres_version)
        THEN Put(p2, "postgres_version", stack_info.postgres_version)
        ELSE p2

\* Lines 145-152: the port used when neither side gives one.
FallbackPort(db_type) ==
    IF db_type = "postgres" THEN "5432"
    ELSE IF db_type = "mysql" THEN "3306"
    ELSE IF db_type = "redis" THEN "6379"
    ELSE "5432"

\* ApplyExplicit with the dump-side port kept when there is one.
ApplyExplicit_DumpPortKept(params, in) ==
    LET p1 == IF Truthy(in.restore_host)
              THEN Put(params, "host", in.restore_host)
              ELSE Put(params, "host", Get(params, "host", "localhost"))
    IN  IF "port" \in DOMAIN p1 THEN p1
        ELSE IF Truthy(in.restore_port) THEN Put(p1, "port", in.restore_port)
        ELSE Put(p1, "port", FallbackPort(in.db_type))

\* Lines 126-153: host and port of a restore without a stack.
ApplyExplicit(params, in) ==
    LET p1 == IF Truthy(in.restore_host)
              THEN Put(params, "host", in.restore_host)
              ELSE Put(params, "host", Get(params, "host", "localhost"))
    IN  IF Truthy(in.restore_port)
        THEN Put(p1, "port", in.restore_port)
        ELSE IF "port" \notin DOMAIN p1
        THEN Put(p1, "port", FallbackPort(in.db_type))
        ELSE p1

\* ApplyLoopback without the test of the stack name.
ApplyLoopback_StackToo(params, in) ==
    IF in.restore_host = "localhost"
    THEN Put(params, "host", "host.docker.internal")
    ELSE IF ~Truthy(in.restore_host) /\ ~Truthy(in.restore_stack_name)
    THEN Put(params, "host", "localhost")
    ELSE params

\* Lines 155-163: the host rewrite for Docker-to-host communication.
ApplyLoopback(params, in) ==
    IF in.restore_host = "localhost" /\ ~Truthy(in.restore_stack_name)
    THEN Put(params, "host", "host.docker.internal")
    ELSE IF ~Truthy(in.restore_host) /\ ~Truthy(in.restore_stack_name)
    THEN Put(params, "host", "localhost")
    ELSE params

\* Lines 166-183 on a URI scheme://[username[:password]@]hostname[:port]/path,
\* kept as its parts.  parsed.port raises ValueError on a port that is no
\* number, and the except branch then rewrites the text from '//' up to the
\* first ':' instead.
RewriteUri(uri) ==
    IF uri.port = None \/ uri.port \in DigitTokens
    THEN [uri EXCEPT !.hostname = "localhost",
                     !.username = IF Truthy(uri.username) THEN uri.username ELSE None,
                     !.password = IF Truthy(uri.username) /\ Truthy(uri.password)
                                  THEN uri.password ELSE None]
    ELSE IF Truthy(uri.username) /\ Truthy(uri.password)
    THEN [uri EXCEPT !.username = "localhost"]
    ELSE [uri EXCEPT !.username = None, !.hostname = "localhost"]

\* Lines 165-183: the URI of a mongodb restore.
ApplyMongoUri(params, in) ==
    IF in.db_type = "mongodb" /\ "uri" \in DOMAIN params
    THEN Put(params, "uri", RewriteUri(params["uri"]))
    ELSE params

\* StackMismatch with the comparison left out.
StackMismatch_Never(stack_info, in) == FALSE

\* Lines 94-102: the detected database type is not the requested one.
StackMismatch(stack_info, in) == stack_info.container.db_type # in.db_type

\* FileMissing with the test of the file left out.
FileMissing_Never(host_tmp_path, files) == FALSE

\* Lines 186-187: not os.path.exists(host_tmp_path)
FileMissing(host_tmp_path, files) == host_tmp_path \notin files

\* Lines 41-220 up to the engine call: the outcome of run_restore before any
\* engine step.  ps is what `docker ps` answers, files the files that exist.
\* call = FALSE: run_restore returns result; call = TRUE: it calls the
\* restore function of in.db_type with params and path.
\* Line 58, params = dict(params): the assignments params[...] = ... that
\* follow are made on a copy.  params is what the caller's dict held at the
\* call, assigned is what the function's dict holds after its assignments;
\* the result is what the caller's dict holds then.
CallerDict_Aliased(params, assigned) == assigned

CallerDict(params, assigned) == params

RunRestorePrepare(in, ps, files) ==
    LET path0      == restore_get_consistent_path(in.config_name, in.db_type,
                                                  in.dump_file_name)
        creds      == ApplyCredentials(in)
        stack_info == get_stack_database_info(ps)
        hostport   == IF Truthy(in.restore_stack_name)
                      THEN ApplyStack(creds, in, stack_info)
                      ELSE ApplyExplicit(creds, in)
        params     == ApplyMongoUri(ApplyLoopback(hostport, in), in)
        host_tmp_path == Path(TmpDir, path0.stem, path0.ext)
    IN  IF Truthy(in.restore_stack_name) /\ ~stack_info.success
        THEN [call |-> FALSE, assigned |-> creds,
              result |-> [success |-> FALSE,
                          message |-> "Failed to get stack database info"]]
        ELSE IF Truthy(in.restore_stack_name) /\ StackMismatch(stack_info, in)
        THEN [call |-> FALSE, assigned |-> creds,
              result |-> [success |-> FALSE, message |-> "Database type mismatch"]]
        ELSE IF FileMissing(host_tmp_path, files)
        THEN [call |-> FALSE, assigned |-> params,
              result |-> [success |-> FALSE, message |-> "Restore file not found"]]
        ELSE IF in.db_type \notin { "postgres", "mysql", "mongodb", "redis", "sqlite" }
        THEN [call |-> FALSE, assigned |-> params,
              result |-> [success |-> FALSE, message |-> "Unsupported database type"]]
        ELSE [call |-> TRUE, assigned |-> params, params |-> params,
              path |-> host_tmp_path]

\* A message handed to the logger: the line of the call and the values its
\* f-string embeds.
Msg(line, values) == [line |-> line, values |-> values]

\* str(params): every value of the dict; a URI shows its parts.
ValuesOf(params) ==
    UNION { IF k = "uri" THEN { params[k][f] : f \in DOMAIN params[k] } ELSE { params[k] } :
            k \in DOMAIN params }

\* The messages run_restore logs from its entry to the call of the engine's
\* restore function, or to its return.
RestoreLogged(in, ps, files) ==
    LET path0      == restore_get_consistent_path(in.config_name, in.db_type,
                                                  in.dump_file_name)
        creds      == ApplyCredentials(in)
        stack_info == get_stack_database_info(ps)
        hostport   == IF Truthy(in.restore_stack_name)
                      THEN ApplyStack(creds, in, stack_info)
                      ELSE ApplyExplicit(creds, in)
        params     == ApplyMongoUri(ApplyLoopback(hostport, in), in)
        entry      == << Msg("48", { in.restore_host, in.restore_port, in.restore_stack_name }),
                         Msg("49", ValuesOf(in.params)),
                         Msg("50", { in.restore_host, in.restore_port }),
                         Msg("55", { Join(in.config_name), path0.stem \o path0.ext }) >>
        credentials ==
            (IF Truthy(in.local_database_name)
             THEN << Msg("63", { in.local_database_name }) >> ELSE <<>>)
            \o << Msg("67", {}) >>
            \o (IF Truthy(in.restore_username)
                THEN << Msg("72", { in.restore_username }) >>
                ELSE IF "username" \notin DOMAIN in.params
                THEN << Msg("76", {}) >>
                ELSE << Msg("78", { in.params["username"] }) >>)
        stack      ==
            << Msg("106", { hostport["host"] }) >>
            \o (IF /\ ~Truthy(in.restore_port)
                   /\ stack_info.container.ports # <<>>
                   /\ PublishedPort(stack_info.container.ports) # None
                THEN << Msg("117", { hostport["port"] }) >> ELSE <<>>)
            \o (IF "postgres_version" \in DOMAIN hostport
                THEN << Msg("122", { hostport["postgres_version"] }) >> ELSE <<>>)
        explicit   ==
            << IF Truthy(in.restore_host)
               THEN Msg("132", { in.restore_host })
               ELSE Msg("136", { hostport["host"] }),
               IF Truthy(in.restore_port)
               THEN Msg("141", { in.restore_port })
               ELSE Msg("153", { hostport["port"] }) >>
        loopback   ==
            IF in.restore_host = "localhost" /\ ~Truthy(in.restore_stack_name)
            THEN << Msg("160", {}) >>
            ELSE IF ~Truthy(in.restore_host) /\ ~Truthy(in.restore_stack_name)
            THEN << Msg("163", {}) >>
            ELSE <<>>
        final      == { Get(params, k, None) : k \in { "host", "port", "database", "username" } }
    IN  IF Truthy(in.restore_stack_name) /\ (~stack_info.success \/ StackMismatch(stack_info, in))
        THEN entry \o credentials \o << Msg("82", { in.restore_stack_name }) >>
        ELSE entry \o credentials
             \o (IF Truthy(in.restore_stack_name)
                 THEN << Msg("82", { in.restore_stack_name }) >> \o stack
                 ELSE explicit)
             \o loopback
             \o (IF FileMissing(Path(TmpDir, path0.stem, path0.ext), files)
                 THEN <<>>
                 ELSE << Msg("197", final) >>
                      \o (IF in.db_type = "postgres" THEN << Msg("200", final) >> ELSE <<>>))

\* ------------------------------------------------------------------------
\* State
\* ------------------------------------------------------------------------

VARIABLES
    env,        \* what the file system allows: cfg, home, tmp, downloads
    fs,         \* the files that exist
    ndumps,     \* run_dump calls made so far
    d_in,       \* the arguments of the last run_dump call
    d_path,     \* the path that call was given
    d_result,   \* the dict that call returned
    d_log,      \* the container runs and file copies that call made
    resolved,   \* the last calls of the path resolvers, with what they returned
    r_pc,       \* position of the run_restore call in flight ("idle": none)
    r_in,       \* the arguments of that call
    r_caller,   \* what the dict the caller passed as params holds now
    r_stack_info, \* its stack_info: what get_stack_database_info returned
    r_params,   \* the params dict handed to the engine's restore function
    r_path,     \* the path handed to the engine's restore function
    r_log,      \* the container runs and file copies the call has made
    r_logged,   \* the messages the call has handed to the logger
    r_result,   \* the dict the call returns
    configs,    \* the rows of the configs table (models/config.py)
    configs_seq, \* the last id the configs table has given out
    configs_db, \* main.py's in-memory list of configurations
    last_id,    \* main.py's last_id
    c_result,   \* what the last call on a configuration store returned or raised
    docker_ps,  \* what `docker ps` answered for a stack (<<>>: not asked yet)
    rr_pc,      \* concurrent _restore_postgres calls: the step each is at
    rr_db,      \* the target database of those calls
    rr_log,     \* the container runs of those calls, in the order they ran
    cd_pc,      \* concurrent _dump_postgres calls: the step each is at
    cd_fs,      \* the files of those calls: path -> the call whose dump it holds
    cd_result,  \* what each of those calls returned
    dump_processes, \* DatabaseService._dump_processes
    process,    \* the dump subprocess, its pipes and its dump file
    dp_call,    \* the create_dump call: its position and its result
    dp_cancel   \* the cancel_dump calls made: what each returned and found

vars == << env, fs, ndumps, d_in, d_path, d_result, d_log, resolved,
           r_pc, r_in, r_caller, r_stack_info, r_params, r_path, r_log, r_logged, r_result,
           configs, configs_seq, configs_db, last_id, c_result,
           docker_ps, rr_pc, rr_db, rr_log, cd_pc, cd_fs, cd_result,
           dump_processes, process, dp_call, dp_cancel >>

storeVars   == << configs, configs_seq, configs_db, last_id, c_result >>
opsVars     == << docker_ps, rr_pc, rr_db, rr_log, cd_pc, cd_fs, cd_result,
                 dump_processes, process, dp_call, dp_cancel >>
dumpVars    == << ndumps, d_in, d_path, d_result, d_log >>
restoreVars == << r_pc, r_in, r_caller, r_stack_info, r_params, r_path, r_log, r_logged,
                 r_result >>

\* ------------------------------------------------------------------------
\* Bounds and input sets
\* ------------------------------------------------------------------------

\* Containers in one `docker ps` listing.
MaxContainers == 2

\* run_dump calls in one behaviour.
MaxDumps == 1

DbTypes == { "postgres", "mysql", "mongodb", "redis", "sqlite", "oracle" }

\* Configuration names and custom file names, as characters.
ConfigNames   == { << "a", "c", "c", "t" >> }
DumpFileNames ==
    { <<>>,
      << "n", "i", "g", "h", "t", "l", "y", " ", "b", "a", "c", "k", "u", "p", " ", "#", "3" >> }

\* Dump-side connection parameters: host and port present or not.
DumpParams ==
    { [username |-> "u", password |-> "p", database |-> "acctdb"],
      [username |-> "u", password |-> "p", database |-> "acctdb", host |-> "localhost",
       port |-> "5433"],
      [username |-> "u", password |-> "p", database |-> "acctdb", host |-> "dbhost"],
      [username |-> "u", password |-> "p", database |-> "acctdb", host |-> "dbhost",
       port |-> "5433"] }

\* A document-store configuration gives a URI.
MongoUriParams ==
    { [database |-> "acctdb", password |-> "p",
       uri |-> [scheme |-> "mongodb", username |-> "mu", password |-> "mp",
                hostname |-> "mongohost", port |-> "27017", path |-> "/acctdb"]] }

\* What `docker ps` can list for a stack.
Containers ==
    { [Names |-> << "/", "db" >>, Image |-> << "postgres", ":", "15" >>, ID |-> "c1",
       Ports |-> << "0.0.0.0:", "5433", "->", "5432", "/tcp" >>],
      [Names |-> << "localhost" >>, Image |-> << "mysql", ":", "8" >>, ID |-> "c2",
       Ports |-> <<>>],
      [Names |-> << "web" >>, Image |-> << "nginx" >>, ID |-> "c3",
       Ports |-> << "0.0.0.0:", "8080", "->", "80", "/tcp" >>],
      [Names |-> << "pg" >>, Image |-> << "Postgres", ":", "latest" >>, ID |-> "c4",
       Ports |-> <<>>] }

RECURSIVE SeqsUpTo(_, _)
SeqsUpTo(S, n) ==
    IF n = 0 THEN { <<>> }
    ELSE LET shorter == SeqsUpTo(S, n - 1)
         IN  shorter \cup { Append(s, x) : s \in shorter, x \in S }

\* No stack name, no `docker ps`.
NoPs == [status |-> "error", containers |-> <<>>]

PsAnswers ==
    { NoPs }
    \cup { [status |-> "ok", containers |-> cs] : cs \in SeqsUpTo(Containers, MaxContainers) }

\* The run_restore calls of the model.
RestoreInputs ==
    { in \in [ db_type             : DbTypes,
               params              : DumpParams \cup MongoUriParams,
               config_name         : ConfigNames,
               dump_file_name      : { <<>> },
               restore_password    : { None, "", "rp" },
               local_database_name : { None, "localdb" },
               restore_username    : { None, "ru" },
               restore_host        : { None, "localhost", "rhost" },
               restore_port        : { None, "6543" },
               restore_stack_name  : { None, "stack" } ] :
        "uri" \in DOMAIN in.params => in.db_type = "mongodb" }

\* The files a dump of each engine leaves in /tmp under the names of the model.
TmpDumps ==
    { restore_get_consistent_path(c, t, f) :
        c \in ConfigNames, t \in DbTypes, f \in DumpFileNames }

\* ------------------------------------------------------------------------
\* restore_service.py: run_restore and the engine restore functions
\* ------------------------------------------------------------------------

Idle == /\ r_pc = "idle"
        /\ r_in = <<>>
        /\ r_caller = <<>>
        /\ r_stack_info = <<>>
        /\ r_params = <<>>
        /\ r_path = <<>>
        /\ r_log = <<>>
        /\ r_logged = <<>>
        /\ r_result = <<>>

\* Both configuration stores as they are when the application starts: the
\* configs table without rows, and main.py lines 83-84.
NoConfigs == /\ configs = {}
             /\ configs_seq = 0
             /\ configs_db = <<>>
             /\ last_id = 0
             /\ c_result = <<>>

\* No `docker ps` asked, no concurrent call started, and the class attribute
\* _dump_processes = {} of database_service.py line 14.
NoOps == /\ docker_ps = <<>>
         /\ rr_pc = <<>>
         /\ rr_db = <<>>
         /\ rr_log = <<>>
         /\ cd_pc = <<>>
         /\ cd_fs = <<>>
         /\ cd_result = <<>>
         /\ dump_processes = <<>>
         /\ process = <<>>
         /\ dp_call = <<>>
         /\ dp_cancel = <<>>

\* run_restore returns result.
Return(result) ==
    /\ r_pc' = "done"
    /\ r_result' = result

\* run_restore(...) from its entry to the call of the engine's restore function.
RestoreStart(in) ==
    /\ r_pc = "idle"
    /\ \E ps \in PsAnswers :
         /\ (~Truthy(in.restore_stack_name) => ps = NoPs)
         /\ LET out == RunRestorePrepare(in, ps, fs)
            IN  /\ r_in' = in
                /\ r_caller' = CallerDict(in.params, out.assigned)
                /\ r_stack_info' = IF Truthy(in.restore_stack_name)
                                   THEN get_stack_database_info(ps) ELSE <<>>
                /\ r_log' = <<>>
                /\ r_logged' = RestoreLogged(in, ps, fs)
                /\ IF out.call
                   THEN /\ r_pc' = in.db_type
                        /\ r_params' = out.params
                        /\ r_path' = out.path
                        /\ r_result' = <<>>
                   ELSE /\ Return(out.result)
                        /\ UNCHANGED << r_params, r_path >>
    /\ UNCHANGED << storeVars, opsVars, env, fs, resolved, dumpVars >>

\* PgCommand with the password given on the command line.
PgCommand_PasswordInline(tool, params, path) ==
    << tool, "-h", Get(params, "host", "localhost"), "-U", params["username"],
       "--password", params["password"], params["database"] >>

\* The command line of a postgres client tool, as its words.
PgCommand(tool, params, path) ==
    LET conn == << "-h", Get(params, "host", "localhost"),
                   "-p", Get(params, "port", "5432"), "-U", params["username"] >>
    IN  CASE tool = "dropdb"   -> << "dropdb" >> \o conn \o << params["database"], "--force" >>
          [] tool = "createdb" -> << "createdb" >> \o conn \o << params["database"] >>
          [] tool = "psql -c"  -> << "psql" >> \o conn
                                  \o << "-d", params["database"], "-c", "SELECT version();" >>
          [] tool = "psql -f"  -> << "psql" >> \o conn
                                  \o << "-d", params["database"], "-f",
                                        "/restore/" \o path.stem \o path.ext >>

\* client.containers.run(image, command, environment, remove=True) of a
\* postgres client tool with the connection values of params.
PgRun(tool, params, ok) ==
    [ api         |-> "containers.run",
      image       |-> "postgres:" \o Get(params, "postgres_version", "16"),
      tool        |-> tool,
      command     |-> PgCommand(tool, params, r_path),
      host        |-> Get(params, "host", "localhost"),
      port        |-> Get(params, "port", "5432"),
      username    |-> params["username"],
      database    |-> params["database"],
      environment |-> [PGPASSWORD |-> params["password"]],
      ok          |-> ok ]

\* Failed with the exception left to propagate to the caller.
Failed_Raised(message) == [raised |-> message]

\* The dict of an except handler: {"success": False, "message": ...}
Failed(message) == [success |-> FALSE, message |-> message]

\* str(e) of the exception of a container run: a ContainerError names the
\* command and the image.
RunError(run) == { run.command[i] : i \in 1..Len(run.command) } \cup { run.image }

\* _restore_postgres, lines 224-243: the Docker client and the parameters.
PgBegin ==
    /\ r_pc = "postgres"
    /\ \E client_ok \in BOOLEAN :
         IF client_ok /\ { "database", "username", "password" } \subseteq DOMAIN r_params
         THEN /\ r_pc' = "pg_drop"
              /\ r_logged' = r_logged
                    \o << Msg("241", { "postgres:" \o Get(r_params, "postgres_version", "16") }),
                          Msg("242", { r_params["database"] }) >>
              /\ UNCHANGED r_result
         ELSE /\ Return(Failed("PostgreSQL restore failed"))
              /\ r_logged' = Append(r_logged, Msg("305", {}))
    /\ UNCHANGED << storeVars, opsVars, env, fs, resolved, dumpVars, r_in, r_caller, r_stack_info, r_params, r_path, r_log >>

\* _restore_postgres step 1, lines 244-256: dropdb --force, a failure is logged.
PgDrop ==
    /\ r_pc = "pg_drop"
    /\ \E ok \in BOOLEAN :
         LET run == PgRun("dropdb", r_params, ok)
         IN  /\ r_log' = Append(r_log, run)
             /\ r_logged' = r_logged
                   \o << Msg("245", { r_params["database"] }),
                         IF ok THEN Msg("254", { r_params["database"] })
                         ELSE Msg("256", { r_params["database"] } \cup RunError(run)) >>
    /\ r_pc' = "pg_create"
    /\ UNCHANGED << storeVars, opsVars, env, fs, resolved, dumpVars, r_in, r_caller, r_stack_info, r_params, r_path, r_result >>

\* PgCreate with the failure logged and swallowed, as step 1 does.
PgCreate_Swallowed ==
    /\ r_pc = "pg_create"
    /\ \E ok \in BOOLEAN : r_log' = Append(r_log, PgRun("createdb", r_params, ok))
    /\ r_pc' = "pg_verify"
    /\ UNCHANGED << storeVars, opsVars, env, fs, resolved, dumpVars, r_in, r_caller, r_stack_info, r_params, r_path,
                    r_logged, r_result >>

\* _restore_postgres step 2, lines 258-267: createdb, a failure ends the restore.
PgCreate ==
    /\ r_pc = "pg_create"
    /\ \E ok \in BOOLEAN :
         LET run == PgRun("createdb", r_params, ok)
         IN  /\ r_log' = Append(r_log, run)
             /\ IF ok
                THEN /\ r_pc' = "pg_verify"
                     /\ r_logged' = r_logged
                           \o << Msg("259", { r_params["database"] }),
                                 Msg("267", { r_params["database"] }) >>
                     /\ UNCHANGED r_result
                ELSE /\ Return(Failed("PostgreSQL restore failed"))
                     /\ r_logged' = r_logged
                           \o << Msg("259", { r_params["database"] }),
                                 Msg("305", RunError(run)) >>
    /\ UNCHANGED << storeVars, opsVars, env, fs, resolved, dumpVars, r_in, r_caller, r_stack_info, r_params, r_path >>

\* _restore_postgres step 3, lines 269-282: psql -c "SELECT version();".
PgVerify ==
    /\ r_pc = "pg_verify"
    /\ \E ok \in BOOLEAN :
         LET run == PgRun("psql -c", r_params, ok)
         IN  /\ r_log' = Append(r_log, run)
             /\ r_logged' = r_logged
                   \o << Msg("270", {}),
                         IF ok THEN Msg("280", {}) ELSE Msg("282", RunError(run)) >>
    /\ r_pc' = "pg_load"
    /\ UNCHANGED << storeVars, opsVars, env, fs, resolved, dumpVars, r_in, r_caller, r_stack_info, r_params, r_path, r_result >>

\* _restore_postgres step 4, lines 284-309: psql -f /restore/<filename>.
PgLoad ==
    /\ r_pc = "pg_load"
    /\ \E ok \in BOOLEAN :
         LET run == PgRun("psql -f", r_params, ok)
         IN  /\ r_log' = Append(r_log, run)
             /\ IF ok
                THEN /\ Return([success |-> TRUE,
                                message |-> "PostgreSQL restore completed successfully",
                                path    |-> r_path])
                     /\ r_logged' = r_logged
                           \o << Msg("285", { r_path.stem \o r_path.ext }),
                                 Msg("298", { r_path.stem \o r_path.ext }) >>
                ELSE /\ Return(Failed("PostgreSQL restore failed"))
                     /\ r_logged' = r_logged
                           \o << Msg("285", { r_path.stem \o r_path.ext }),
                                 Msg("305", RunError(run)) >>
    /\ UNCHANGED << storeVars, opsVars, env, fs, resolved, dumpVars, r_in, r_caller, r_stack_info, r_params, r_path >>

\* _restore_mysql, lines 311-342: one mysql client run, the password in the
\* command line.
RestoreMysql ==
    /\ r_pc = "mysql"
    /\ \E client_ok \in BOOLEAN, ok \in BOOLEAN :
         IF client_ok /\ { "database", "username", "password" } \subseteq DOMAIN r_params
         THEN /\ r_log' = Append(r_log,
                    [ api      |-> "containers.run",
                      image    |-> "mysql:8.0",
                      tool     |-> "mysql",
                      host     |-> Get(r_params, "host", "localhost"),
                      port     |-> Get(r_params, "port", "3306"),
                      username |-> r_params["username"],
                      database |-> r_params["database"],
                      command_password |-> r_params["password"],
                      ok       |-> ok ])
              /\ IF ok
                 THEN Return([success |-> TRUE,
                              message |-> "MySQL restore completed successfully",
                              path    |-> r_path])
                 ELSE Return(Failed("MySQL restore failed"))
         ELSE /\ Return(Failed("MySQL restore failed"))
              /\ UNCHANGED r_log
    /\ UNCHANGED << storeVars, opsVars, env, fs, resolved, dumpVars, r_in, r_caller, r_stack_info, r_params, r_path,
                    r_logged >>

\* _restore_mongodb, lines 344-372: one mongorestore run on the URI.
RestoreMongodb ==
    /\ r_pc = "mongodb"
    /\ \E client_ok \in BOOLEAN, ok \in BOOLEAN :
         IF client_ok /\ { "uri", "database" } \subseteq DOMAIN r_params
         THEN /\ r_log' = Append(r_log,
                    [ api      |-> "containers.run",
                      image    |-> "mongo:6.0",
                      tool     |-> "mongorestore",
                      uri      |-> r_params["uri"],
                      database |-> r_params["database"],
                      ok       |-> ok ])
              /\ IF ok
                 THEN Return([success |-> TRUE,
                              message |-> "MongoDB restore completed successfully",
                              path    |-> r_path])
                 ELSE Return(Failed("MongoDB restore failed"))
         ELSE /\ Return(Failed("MongoDB restore failed"))
              /\ UNCHANGED r_log
    /\ UNCHANGED << storeVars, opsVars, env, fs, resolved, dumpVars, r_in, r_caller, r_stack_info, r_params, r_path,
                    r_logged >>

\* _restore_redis, lines 374-409: cp of the snapshot to /data/dump.rdb.
RestoreRedis ==
    /\ r_pc = "redis"
    /\ \E client_ok \in BOOLEAN, ok \in BOOLEAN :
         IF client_ok
         THEN /\ r_log' = Append(r_log,
                    [ api   |-> "containers.run",
                      image |-> "redis:7.0",
                      tool  |-> "cp",
                      ok    |-> ok ])
              /\ IF ok
                 THEN Return([success |-> TRUE,
                              message |-> "Redis restore completed successfully",
                              path    |-> r_path])
                 ELSE Return(Failed("Redis restore failed"))
         ELSE /\ Return(Failed("Redis restore failed"))
              /\ UNCHANGED r_log
    /\ UNCHANGED << storeVars, opsVars, env, fs, resolved, dumpVars, r_in, r_caller, r_stack_info, r_params, r_path,
                    r_logged >>

\* The file a sqlite configuration names as its database.
SqliteFile(database) == Path("sqlite", database, "")

\* _restore_sqlite, lines 411-435: shutil.copy2 of the dump to params['database'].
RestoreSqlite ==
    /\ r_pc = "sqlite"
    /\ \E ok \in BOOLEAN :
         IF ok /\ "database" \in DOMAIN r_params
         THEN /\ r_log' = Append(r_log, [api |-> "shutil.copy2", ok |-> TRUE])
              /\ fs' = fs \cup { SqliteFile(r_params["database"]) }
              /\ Return([success |-> TRUE,
                         message |-> "SQLite restore completed successfully",
                         path    |-> SqliteFile(r_params["database"])])
         ELSE /\ Return(Failed("SQLite restore failed"))
              /\ UNCHANGED << fs, r_log >>
    /\ UNCHANGED << storeVars, opsVars, env, resolved, dumpVars, r_in, r_caller, r_stack_info, r_params, r_path,
                    r_logged >>

\* The caller has the result; the next call can start.
RestoreReturn ==
    /\ r_pc = "done"
    /\ r_pc' = "idle"
    /\ r_in' = <<>>
    /\ r_caller' = <<>>
    /\ r_stack_info' = <<>>
    /\ r_params' = <<>>
    /\ r_path' = <<>>
    /\ r_log' = <<>>
    /\ r_logged' = <<>>
    /\ r_result' = <<>>
    /\ UNCHANGED << storeVars, opsVars, env, fs, resolved, dumpVars >>

RestoreSteps ==
    \/ PgBegin
    \/ PgDrop
    \/ PgCreate
    \/ PgVerify
    \/ PgLoad
    \/ RestoreMysql
    \/ RestoreMongodb
    \/ RestoreRedis
    \/ RestoreSqlite
    \/ RestoreReturn

\* ------------------------------------------------------------------------
\* dump_service.py: run_dump and the engine dump functions
\* ------------------------------------------------------------------------

\* A write into dir succeeds (the directory exists or can be made, and takes
\* new files).
DirWritable(e, dir) ==
    CASE dir = CfgDir       -> e.cfg = "rw"
      [] dir = HomeDumpDir  -> e.home = "rw"
      [] dir = TmpDir       -> e.tmp = "rw"
      [] dir = DownloadsDir -> e.downloads = "rw"
      [] OTHER              -> FALSE

\* try: os.remove(f) except: pass
Remove(files, f, e) == IF DirWritable(e, f.dir) THEN files \ { f } ELSE files

\* Lines 100-107: a path that does not end in ext gets ext appended.
FixExt(path, ext) ==
    IF path.ext = ext THEN path ELSE Path(path.dir, path.stem \o path.ext, ext)

\* Lines 128-129: /tmp/temp_<filename>
TempOf(path) == Path(TmpDir, "temp_" \o path.stem, path.ext)

\* Lines 226: ~/Downloads/temp_<filename>
AltTempOf(path) == Path(DownloadsDir, "temp_" \o path.stem, path.ext)

Succeeded(message, path) == [success |-> TRUE, message |-> message, path |-> path]

\* The command line of a dump tool up to its output file, as its words.
DumpCommand(tool, params) ==
    CASE tool = "pg_dump" ->
           << "pg_dump", "-h", Get(params, "host", "localhost"),
              "-p", Get(params, "port", "5432"), "-U", params["username"],
              "-d", params["database"], "-f" >>
      [] tool = "mysqldump" ->
           << "mysqldump", "-h", Get(params, "host", "localhost"),
              "-P", Get(params, "port", "3306"), "-u", params["username"],
              "-p", params["password"], params["database"], ">" >>
      [] tool = "redis-cli" ->
           << "redis-cli", "-h", Get(params, "host", "localhost"),
              "-p", Get(params, "port", "6379") >>
           \o (IF Truthy(Get(params, "password", None))
               THEN << "-a", params["password"] >> ELSE <<>>)
           \o << "--rdb" >>

\* The environment= argument of the run of a dump tool.
DumpEnvironment(tool, params) ==
    IF tool = "pg_dump" THEN [PGPASSWORD |-> params["password"]]
    ELSE [k \in {} |-> None]

\* The image of the run of a dump tool.
DumpImage(tool) ==
    CASE tool = "pg_dump"   -> "postgres:16"
      [] tool = "mysqldump" -> "mysql:8.0"
      [] tool = "redis-cli" -> "redis:7.0"

\* client.containers.run(image, command, volumes={mount: ...}) of a dump tool
\* writing out, a file under the mount.
DumpRun(tool, params, mount, out, ok) ==
    [ api         |-> "containers.run",
      image       |-> DumpImage(tool),
      tool        |-> tool,
      command     |-> Append(DumpCommand(tool, params), out.stem \o out.ext),
      environment |-> DumpEnvironment(tool, params),
      mount       |-> mount,
      ok          |-> ok ]

\* shutil.copy2(src, dst)
Copy(dst, ok) == [api |-> "shutil.copy2", tool |-> "copy", dst |-> dst, ok |-> ok]

\* The body shared by _dump_postgres, _dump_mysql and _dump_redis: the dump
\* tool writes /tmp/temp_<filename> in a container, the file is copied to
\* path, else to ~/Downloads, else to /tmp; when the container run raises, a
\* second run writes through a ~/Downloads mount.  client_ok, run1_ok and
\* run2_ok are what the Docker client and the two runs do; partial is whether a
\* run that raises has left the part of its output file it wrote (no branch of
\* the code removes the output of a run that raised).
DumpViaTemp(label, tool, ext, required, params, path0, e, files, client_ok, run1_ok, run2_ok, partial) ==
    IF ~client_ok \/ ~(required \subseteq DOMAIN params)
    THEN [result |-> Failed(label \o " dump failed"), files |-> files, log |-> <<>>]
    ELSE
    LET path     == FixExt(path0, ext)
        temp     == TempOf(path)
        alt_temp == AltTempOf(path)
        fallback == Path(DownloadsDir, path.stem, path.ext)
        final    == Path(TmpDir, path.stem, path.ext)
        written  == files \cup { temp }
        left1    == IF partial THEN files \cup { temp } ELSE files
        left2    == IF partial THEN left1 \cup { alt_temp } ELSE left1
        run1     == DumpRun(tool, params, TmpDir, temp, run1_ok)
        run2     == DumpRun(tool, params, DownloadsDir, alt_temp, run2_ok)
    IN  IF run1_ok
        THEN IF DirWritable(e, path.dir)
             THEN [result |-> Succeeded(label \o " dump completed successfully", path),
                   files  |-> Remove(written \cup { path }, temp, e),
                   log    |-> << run1, Copy(path, TRUE) >>]
             ELSE IF DirWritable(e, DownloadsDir)
             THEN [result |-> Succeeded(label \o " dump completed successfully, but could not write to path. File saved to fallback", fallback),
                   files  |-> Remove(written \cup { fallback }, temp, e),
                   log    |-> << run1, Copy(path, FALSE), Copy(fallback, TRUE) >>]
             ELSE IF DirWritable(e, TmpDir)
             THEN [result |-> Succeeded(label \o " dump completed successfully, but could not write to path. File saved to fallback", final),
                   files  |-> Remove(written \cup { final }, temp, e),
                   log    |-> << run1, Copy(path, FALSE), Copy(fallback, FALSE),
                                 Copy(final, TRUE) >>]
             ELSE [result |-> Succeeded(label \o " dump completed successfully, but could not copy. File is available at temp", temp),
                   files  |-> written,
                   log    |-> << run1, Copy(path, FALSE), Copy(fallback, FALSE),
                                 Copy(final, FALSE) >>]
        ELSE IF run2_ok /\ DirWritable(e, path.dir)
        THEN [result |-> Succeeded(label \o " dump completed successfully", path),
              files  |-> Remove(left1 \cup { alt_temp, path }, alt_temp, e),
              log    |-> << run1, run2, Copy(path, TRUE) >>]
        ELSE [result |-> Failed("Unable to write to the specified location"),
              files  |-> IF run2_ok THEN left1 \cup { alt_temp } ELSE left2,
              log    |-> IF run2_ok THEN << run1, run2, Copy(path, FALSE) >>
                         ELSE << run1, run2 >>]

\* _dump_postgres(params, path)
dump_postgres(params, path, e, files, client_ok, run1_ok, run2_ok, partial) ==
    DumpViaTemp("PostgreSQL", "pg_dump", ".sql", { "database", "username", "password" },
                params, path, e, files, client_ok, run1_ok, run2_ok, partial)

\* _dump_mysql(params, path)
dump_mysql(params, path, e, files, client_ok, run1_ok, run2_ok, partial) ==
    DumpViaTemp("MySQL", "mysqldump", ".sql", { "database", "username", "password" },
                params, path, e, files, client_ok, run1_ok, run2_ok, partial)

\* _dump_redis(params, path)
dump_redis(params, path, e, files, client_ok, run1_ok, run2_ok, partial) ==
    DumpViaTemp("Redis", "redis-cli", ".rdb", {},
                params, path, e, files, client_ok, run1_ok, run2_ok, partial)

\* _dump_mongodb(params, path): mongodump writes into path, mounted as a
\* directory; partial is whether a run that raises has left what it wrote.
dump_mongodb(params, path, e, files, client_ok, run1_ok, partial) ==
    IF client_ok /\ { "uri", "database" } \subseteq DOMAIN params
    THEN LET run == [ api      |-> "containers.run",
                      image    |-> "mongo:6.0",
                      tool     |-> "mongodump",
                      uri      |-> params["uri"],
                      database |-> params["database"],
                      mount    |-> path.dir,
                      ok       |-> run1_ok ]
         IN  IF run1_ok
             THEN [result |-> Succeeded("MongoDB dump completed successfully", path),
                   files  |-> files \cup { path },
                   log    |-> << run >>]
             ELSE [result |-> Failed("MongoDB dump failed"),
                   files  |-> IF partial THEN files \cup { path } ELSE files,
                   log    |-> << run >>]
    ELSE [result |-> Failed("MongoDB dump failed"), files |-> files, log |-> <<>>]

\* _dump_sqlite(params, path): a copy of the database file.
dump_sqlite(params, path0, e, files) ==
    LET path == FixExt(path0, ".db")
    IN  IF "database" \notin DOMAIN params
        THEN [result |-> Failed("SQLite dump failed"), files |-> files, log |-> <<>>]
        ELSE IF SqliteFile(params["database"]) \notin files
        THEN [result |-> Failed("SQLite database file not found"), files |-> files,
              log |-> <<>>]
        ELSE IF DirWritable(e, path.dir)
        THEN [result |-> Succeeded("SQLite dump completed successfully", path),
              files  |-> files \cup { path },
              log    |-> << Copy(path, TRUE) >>]
        ELSE [result |-> Failed("SQLite dump failed"), files |-> files,
              log    |-> << Copy(path, FALSE) >>]

\* os.path.isdir(path): the paths that are directories are those mongodump
\* was given.
IsDir(path) == path.ext = ".bson"

\* run_dump(db_type, params, path)
run_dump(db_type, params, path, e, files, client_ok, run1_ok, run2_ok, partial) ==
    IF path \in files /\ IsDir(path)
    THEN [result |-> Failed("Path already exists as a directory"), files |-> files,
          log |-> <<>>]
    ELSE IF db_type = "postgres"
    THEN dump_postgres(params, path, e, files, client_ok, run1_ok, run2_ok, partial)
    ELSE IF db_type = "mysql"
    THEN dump_mysql(params, path, e, files, client_ok, run1_ok, run2_ok, partial)
    ELSE IF db_type = "mongodb"
    THEN dump_mongodb(params, path, e, files, client_ok, run1_ok, partial)
    ELSE IF db_type = "redis"
    THEN dump_redis(params, path, e, files, client_ok, run1_ok, run2_ok, partial)
    ELSE IF db_type = "sqlite"
    THEN dump_sqlite(params, path, e, files)
    ELSE [result |-> Failed("Unsupported database type"), files |-> files, log |-> <<>>]

\* The (config_name, db_type, dump_file_name) of a call.
KeyOf(in) == << in.config_name, in.db_type, in.dump_file_name >>

\* DatabaseService._build_pg_dump_command(config, dump_file): the command as
\* its words, and the environment of the process.
build_pg_dump_command(config, dump_file) ==
    [ cmd |-> << "pg_dump", "-h", config["host"], "-p", config["port"],
                 "-U", config["username"], "-d", config["database"],
                 "-f", dump_file.stem \o dump_file.ext, "--no-password", "--verbose" >>
              \o (IF Get(config, "format", None) = "custom" THEN << "-Fc" >> ELSE << "-Fp" >>)
              \o (IF Get(config, "schema_only", FALSE) THEN << "-s" >> ELSE <<>>)
              \o (IF Get(config, "data_only", FALSE) THEN << "-a" >> ELSE <<>>),
      env |-> [PGPASSWORD |-> config["password"]] ]

\* The paths a caller can give run_dump for a configuration: the path of
\* utils.get_consistent_path, or the path run_restore will look at.  (The one
\* caller in the source, api/dump.py line 12, resolves no path.)
DumpPaths(in, e) ==
    { get_consistent_path(in.config_name, in.db_type, in.dump_file_name, e),
      restore_get_consistent_path(in.config_name, in.db_type, in.dump_file_name) }

\* A dump of a configuration: run_dump is called on a resolved path.  Calls are
\* made one after the other.
RunDump(in) ==
    /\ r_pc = "idle"
    /\ ndumps < MaxDumps
    /\ ndumps' = ndumps + 1
    /\ \E path \in DumpPaths(in, env),
          client_ok \in BOOLEAN, run1_ok \in BOOLEAN, run2_ok \in BOOLEAN,
          partial \in BOOLEAN :
         LET out == run_dump(in.db_type, in.params, path, env, fs,
                             client_ok, run1_ok, run2_ok, partial)
         IN  /\ d_in' = in
             /\ d_path' = path
             /\ d_result' = out.result
             /\ d_log' = out.log
             /\ fs' = out.files
    /\ UNCHANGED << storeVars, opsVars, env, resolved, restoreVars >>

\* A call of get_consistent_path(config_name, db_type, dump_file_name) and of
\* the restore side's _get_consistent_path on the same arguments; the last two
\* calls are kept.
Resolve(config_name, db_type, dump_file_name) ==
    /\ LET call == [ key  |-> << config_name, db_type, dump_file_name >>,
                     path |-> get_consistent_path(config_name, db_type, dump_file_name, env),
                     restore |-> restore_get_consistent_path(config_name, db_type,
                                                             dump_file_name) ]
       IN  resolved' = IF resolved = <<>> THEN << call >>
                       ELSE << resolved[Len(resolved)], call >>
    /\ UNCHANGED << storeVars, opsVars, env, fs, dumpVars, restoreVars >>

\* What the file system allows.
Envs ==
    [ cfg : { "rw", "ro", "nomkdir" }, home : { "rw", "ro", "nomkdir" },
      tmp : { "rw", "ro" }, downloads : { "rw", "ro" } ]

\* A directory becomes read-only, writable, or impossible to create, between
\* two calls.
EnvChange ==
    /\ r_pc = "idle"
    /\ \E e \in Envs : e # env /\ env' = e
    /\ UNCHANGED << storeVars, opsVars, fs, resolved, dumpVars, restoreVars >>

\* ------------------------------------------------------------------------
\* Specification of run_restore: every combination of dump-side parameters
\* and restore-side overrides, with the dump files present in /tmp or not.
\* ------------------------------------------------------------------------

AllWritable == [cfg |-> "rw", home |-> "rw", tmp |-> "rw", downloads |-> "rw"]

Init ==
    /\ env = AllWritable
    /\ fs \in { {}, TmpDumps }
    /\ ndumps = 0
    /\ d_in = <<>>
    /\ d_path = <<>>
    /\ d_result = <<>>
    /\ d_log = <<>>
    /\ resolved = <<>>
    /\ Idle
    /\ NoConfigs
    /\ NoOps

Next ==
    \/ \E in \in RestoreInputs : RestoreStart(in)
    \/ RestoreSteps

Spec == Init /\ [][Next]_vars

\* ------------------------------------------------------------------------
\* Specification of the round trip: dumps of configurations into the resolved
\* path, changes of what the file system allows, and restores of the same
\* configurations without overrides.
\* ------------------------------------------------------------------------

FullParams == [host |-> "dbhost", port |-> "5433", username |-> "u", password |-> "p",
               database |-> "acctdb"]

\* The engines of the round trip.
PathDbTypes == { "postgres", "sqlite" }

DumpInputs ==
    { in \in [ db_type        : PathDbTypes,
               params         : { FullParams } \cup MongoUriParams,
               config_name    : ConfigNames,
               dump_file_name : DumpFileNames ] :
        "uri" \in DOMAIN in.params <=> in.db_type = "mongodb" }

\* The restore of a dumped configuration: no restore-side value is given.
PlainRestore(d) ==
    [ db_type             |-> d.db_type,
      params              |-> d.params,
      config_name         |-> d.config_name,
      dump_file_name      |-> d.dump_file_name,
      restore_password    |-> None,
      local_database_name |-> None,
      restore_username    |-> None,
      restore_host        |-> None,
      restore_port        |-> None,
      restore_stack_name  |-> None ]

InitPath ==
    /\ env = AllWritable
    /\ fs = { SqliteFile("acctdb") }
    /\ ndumps = 0
    /\ d_in = <<>>
    /\ d_path = <<>>
    /\ d_result = <<>>
    /\ d_log = <<>>
    /\ resolved = <<>>
    /\ Idle
    /\ NoConfigs
    /\ NoOps

NextPath ==
    \/ EnvChange
    \/ \E in \in DumpInputs : RunDump(in)
    \/ \E in \in DumpInputs : RestoreStart(PlainRestore(in))
    \/ PgBegin
    \/ PgDrop
    \/ PgCreate
    \/ PgVerify
    \/ PgLoad
    \/ RestoreSqlite
    \/ RestoreReturn

SpecPath == InitPath /\ [][NextPath]_vars

\* ------------------------------------------------------------------------
\* Specification of the path resolver: calls of get_consistent_path with
\* changes of what the file system allows between them.
\* ------------------------------------------------------------------------

NextResolve ==
    \/ EnvChange
    \/ \E c \in ConfigNames, t \in DbTypes, f \in DumpFileNames : Resolve(c, t, f)

SpecResolve == InitPath /\ [][NextResolve]_vars

\* ------------------------------------------------------------------------
\* Properties of the round trip and of the path resolver
\* ------------------------------------------------------------------------

\* C1: a run_restore without overrides that follows a successful run_dump of
\* the same (config_name, db_type, dump_file_name) resolves the path the dump
\* wrote to and does not return 'Restore file not found'.
C1_RoundTrip ==
    (/\ r_pc # "idle"
     /\ ndumps >= 1
     /\ d_result.success
     /\ KeyOf(r_in) = KeyOf(d_in))
        => /\ restore_get_consistent_path(r_in.config_name, r_in.db_type,
                                          r_in.dump_file_name) = d_result.path
           /\ ~(r_pc = "done" /\ r_result.message = "Restore file not found")

\* C2: two calls of get_consistent_path with the same arguments return the
\* same path, whatever the file system allowed at each call.
C2_PathDeterminism ==
    (Len(resolved) = 2 /\ resolved[1].key = resolved[2].key)
        => resolved[1].path = resolved[2].path

\* ------------------------------------------------------------------------
\* Properties of run_restore
\* ------------------------------------------------------------------------

\* The call in flight has reached the engine's restore function, which was
\* handed r_params.
Handed == DOMAIN r_params # {}

NoStack == ~Truthy(r_in.restore_stack_name)

\* C3: with no restore_password (None or ''), the password handed to the
\* engine restore step is the dump-time password of params.
C3_PasswordFallback ==
    (Handed /\ ~Truthy(r_in.restore_password) /\ "password" \in DOMAIN r_in.params)
        => r_params["password"] = r_in.params["password"]

\* C4: with no stack name and no restore_host, the host handed to the engine
\* restore step is the dump-time host, or host.docker.internal when that host
\* is localhost.
C4_HostFallback ==
    (Handed /\ NoStack /\ ~Truthy(r_in.restore_host) /\ "host" \in DOMAIN r_in.params)
        => r_params["host"] = IF r_in.params["host"] = "localhost"
                              THEN "host.docker.internal"
                              ELSE r_in.params["host"]

\* C5: without a stack name, every restore-side value that is supplied is the
\* value handed to the engine restore step (a supplied host of localhost as
\* host.docker.internal), whatever the dump-side map holds.
C5_OverridePrecedence ==
    (Handed /\ NoStack) =>
        /\ Truthy(r_in.restore_host) =>
               r_params["host"] = IF r_in.restore_host = "localhost"
                                  THEN "host.docker.internal"
                                  ELSE r_in.restore_host
        /\ Truthy(r_in.restore_port) => r_params["port"] = r_in.restore_port
        /\ Truthy(r_in.restore_username) => r_params["username"] = r_in.restore_username
        /\ Truthy(r_in.restore_password) => r_params["password"] = r_in.restore_password
        /\ Truthy(r_in.local_database_name) =>
               r_params["database"] = r_in.local_database_name

\* A restore without a stack, all five overrides supplied, over a dump-side
\* map that has its own host and port, has reached the engine.
C5_Witness ==
    /\ Handed
    /\ NoStack
    /\ r_in.restore_host = "rhost"
    /\ r_in.restore_port = "6543"
    /\ r_in.restore_username = "ru"
    /\ r_in.restore_password = "rp"
    /\ r_in.local_database_name = "localdb"
    /\ { "host", "port" } \subseteq DOMAIN r_in.params
    /\ r_in.params["host"] = "dbhost"
    /\ r_in.params["port"] = "5433"
    /\ r_params["port"] = "6543"

\* C6: with a stack name and a restore_port, the port handed to the engine
\* restore step is restore_port.
C6_StackPortPriority ==
    (Handed /\ ~NoStack /\ Truthy(r_in.restore_port))
        => ("port" \in DOMAIN r_params /\ r_params["port"] = r_in.restore_port)

\* The call in flight asked for a stack and discovery found a database
\* container of another type than the requested one.
Mismatched ==
    /\ r_pc # "idle"
    /\ ~NoStack
    /\ r_stack_info.success
    /\ r_stack_info.container.db_type # r_in.db_type

\* C7: a run_restore whose stack holds a database of another type than
\* db_type has returned success = false, and it has run no engine command.
C7_StackMismatchRejected ==
    Mismatched =>
        /\ r_pc = "done"
        /\ r_result.success = FALSE
        /\ r_log = <<>>
        /\ ~Handed

\* A postgres restore met a mysql container, with the dump file in place.
C7_Witness ==
    /\ Mismatched
    /\ r_in.db_type = "postgres"
    /\ r_stack_info.container.db_type = "mysql"
    /\ restore_get_consistent_path(r_in.config_name, r_in.db_type, r_in.dump_file_name)
           \in fs
    /\ r_result.message = "Database type mismatch"

\* C8: without a stack name, when the resolved host (restore_host, or the
\* dump-time host without one) is localhost, the host handed to the engine
\* restore step is host.docker.internal.
C8_LoopbackRewrite ==
    (/\ Handed
     /\ NoStack
     /\ \/ r_in.restore_host = "localhost"
        \/ /\ ~Truthy(r_in.restore_host)
           /\ "host" \in DOMAIN r_in.params
           /\ r_in.params["host"] = "localhost")
        => r_params["host"] = "host.docker.internal"

\* The container name without its slashes, for the containers of the model.
NameOfContainer(id) ==
    CASE id = "c1" -> "db"
      [] id = "c2" -> "localhost"
      [] id = "c3" -> "web"
      [] id = "c4" -> "pg"

\* C9: with a stack name and a successful discovery, the host handed to the
\* engine restore step is the name of the discovered container without its
\* slashes, and never host.docker.internal.
C9_NoLoopbackRewriteOnStack ==
    (Handed /\ ~NoStack) =>
        /\ r_params["host"] = NameOfContainer(r_stack_info.container.id)
        /\ r_params["host"] # "host.docker.internal"

\* A stack restore with restore_host = localhost found the container that is
\* itself named localhost.
C9_Witness ==
    /\ Handed
    /\ ~NoStack
    /\ r_in.restore_host = "localhost"
    /\ Join(r_stack_info.container.name) = "localhost"
    /\ r_params["host"] = "localhost"

\* The runs of `tool` in the log.
RunsOf(tool) == { i \in 1..Len(r_log) : r_log[i].tool = tool }

\* C10: in a postgres restore, a failed dropdb is followed by createdb; a failed
\* createdb is the last command of the call, which returns success = false;
\* psql -f runs only after a createdb that succeeded.
C10_DropNonFatalCreateFatal ==
    (r_pc # "idle" /\ r_in.db_type = "postgres") =>
        /\ \A i \in RunsOf("dropdb") :
               /\ i = 1
               /\ r_pc = "done" => (Len(r_log) >= 2 /\ r_log[2].tool = "createdb")
               /\ Len(r_log) = 1 => r_pc = "pg_create"
        /\ \A i \in RunsOf("createdb") :
               ~r_log[i].ok => /\ Len(r_log) = i
                               /\ r_pc = "done"
                               /\ r_result.success = FALSE
        /\ \A i \in RunsOf("psql -f") :
               \E j \in RunsOf("createdb") : j < i /\ r_log[j].ok
        /\ (r_pc = "done" /\ r_result.success) => RunsOf("psql -f") # {}

\* A postgres restore whose dropdb failed went on to create and load.
C10_Witness ==
    /\ r_pc = "done"
    /\ r_in.db_type = "postgres"
    /\ Len(r_log) = 4
    /\ r_log[1].tool = "dropdb" /\ ~r_log[1].ok
    /\ r_log[2].tool = "createdb" /\ r_log[2].ok
    /\ r_log[4].tool = "psql -f" /\ r_log[4].ok
    /\ r_result.success

\* ------------------------------------------------------------------------
\* Properties of the engine steps
\* ------------------------------------------------------------------------

\* C11: in a postgres restore resolved through a stack name, every step is an
\* exec into the container discovery found, not a run of a new container.
C11_InContainerExecution ==
    (r_pc # "idle" /\ r_in.db_type = "postgres" /\ ~NoStack) =>
        \A i \in 1..Len(r_log) :
            /\ r_log[i].api = "exec_run"
            /\ "container" \in DOMAIN r_log[i]
            /\ r_log[i].container = r_stack_info.container.id

\* C12: a mongodb restore starts no mongorestore command and returns a failure
\* result.
C12_MongoUnsupported ==
    (r_pc # "idle" /\ r_in.db_type = "mongodb") =>
        /\ RunsOf("mongorestore") = {}
        /\ r_pc = "done" => ~r_result.success

\* ------------------------------------------------------------------------
\* Properties of run_dump
\* ------------------------------------------------------------------------

\* The copies of the last run_dump call to the requested path that failed.
FailedTargetCopies ==
    { i \in 1..Len(d_log) :
        /\ d_log[i].api = "shutil.copy2"
        /\ d_log[i].dst = FixExt(d_path, DB_CONFIGS_extension(d_in.db_type))
        /\ ~d_log[i].ok }

\* C13: a dump whose write to the requested path failed returns success, and
\* the path it returns is another location than the requested one.
C13_FallbackSuccess ==
    (ndumps >= 1 /\ FailedTargetCopies # {}) =>
        /\ d_result.success
        /\ d_result.path # FixExt(d_path, DB_CONFIGS_extension(d_in.db_type))

\* C14: a fallback copy into ~/Downloads is made only after a copy into /tmp
\* (the temp directory) has failed.
C14_FallbackOrder ==
    \A i \in 1..Len(d_log) :
        (/\ d_log[i].api = "shutil.copy2"
         /\ d_log[i].dst.dir = DownloadsDir
         /\ d_log[i].dst # FixExt(d_path, DB_CONFIGS_extension(d_in.db_type)))
            => \E j \in 1..(i - 1) :
                   /\ d_log[j].api = "shutil.copy2"
                   /\ d_log[j].dst.dir = TmpDir
                   /\ ~d_log[j].ok

\* The container runs of the last run_dump call.
DumpRuns == { i \in 1..Len(d_log) : d_log[i].api = "containers.run" }

\* C15: one run_dump call runs the engine's dump command at most once, and a
\* run that failed makes the call return a failure.
C15_NoDumpRetry ==
    /\ Cardinality(DumpRuns) <= 1
    /\ \A i \in DumpRuns : ~d_log[i].ok => ~d_result.success

\* ------------------------------------------------------------------------
\* Properties of the checks before execution
\* ------------------------------------------------------------------------

\* The call in flight found no file at the path it resolved.
FileAbsent ==
    /\ r_pc # "idle"
    /\ restore_get_consistent_path(r_in.config_name, r_in.db_type, r_in.dump_file_name)
           \notin fs

\* C16 as stated: a run_restore that finds no file at the resolved path has
\* returned success = false with the message that asks for a dump first, and
\* has run no engine command.
C16_AsStated ==
    FileAbsent =>
        /\ r_pc = "done"
        /\ r_result.success = FALSE
        /\ r_result.message = "Restore file not found"
        /\ r_log = <<>>
        /\ ~Handed

\* C16, amended: a run_restore that finds no file at the resolved path has
\* returned success = false and has run no engine command; its message is the
\* one that asks for a dump first unless stack discovery failed or found
\* another database type, which are reported before the file is looked for.
C16_RestorePrecondition ==
    FileAbsent =>
        /\ r_pc = "done"
        /\ r_result.success = FALSE
        /\ r_log = <<>>
        /\ ~Handed
        /\ (NoStack \/ (r_stack_info.success /\ ~Mismatched))
               => r_result.message = "Restore file not found"

\* A postgres restore through a stack whose discovery succeeded found no dump
\* file.
C16_Witness ==
    /\ FileAbsent
    /\ r_in.db_type = "postgres"
    /\ ~NoStack
    /\ r_stack_info.success
    /\ r_result.message = "Restore file not found"

\* The values an engine restore needs from the parameters it was handed.
MissingRequired ==
    \E k \in { "database", "username", "password" } :
        k \notin DOMAIN r_params \/ ~Truthy(r_params[k])

\* C17: a postgres or mysql restore whose reconciled parameters lack a
\* database, username or password (a password of no value included) runs no
\* command and returns a failure.
C17_ValidationBeforeExecution ==
    (Handed /\ r_in.db_type \in { "postgres", "mysql" } /\ MissingRequired) =>
        /\ r_log = <<>>
        /\ r_pc = "done" => r_result.success = FALSE

\* ------------------------------------------------------------------------
\* Specification of single calls: one run_restore call, or run_dump calls, of
\* every engine, with parameter maps that lack required keys, in file systems
\* that allow more or less.
\* ------------------------------------------------------------------------

\* A parameter map without username and password.
BareParams == [database |-> "acctdb"]

CallEnvs ==
    { AllWritable,
      [cfg |-> "ro", home |-> "rw", tmp |-> "rw", downloads |-> "rw"],
      [cfg |-> "nomkdir", home |-> "nomkdir", tmp |-> "rw", downloads |-> "ro"],
      [cfg |-> "ro", home |-> "ro", tmp |-> "ro", downloads |-> "ro"] }

CallDumpInputs ==
    { in \in [ db_type        : DbTypes,
               params         : { FullParams, BareParams } \cup MongoUriParams,
               config_name    : ConfigNames,
               dump_file_name : DumpFileNames ] :
        "uri" \in DOMAIN in.params => in.db_type = "mongodb" }

CallRestoreInputs ==
    { in \in [ db_type             : DbTypes,
               params              : { FullParams, BareParams } \cup MongoUriParams,
               config_name         : ConfigNames,
               dump_file_name      : DumpFileNames,
               restore_password    : { None, "rp" },
               local_database_name : { None },
               restore_username    : { None },
               restore_host        : { None },
               restore_port        : { None },
               restore_stack_name  : { None, "stack" } ] :
        "uri" \in DOMAIN in.params => in.db_type = "mongodb" }

InitCalls ==
    /\ env \in CallEnvs
    /\ fs \in { { SqliteFile("acctdb") }, TmpDumps }
    /\ ndumps = 0
    /\ d_in = <<>>
    /\ d_path = <<>>
    /\ d_result = <<>>
    /\ d_log = <<>>
    /\ resolved = <<>>
    /\ Idle
    /\ NoConfigs
    /\ NoOps

NextCalls ==
    \/ ndumps = 0 /\ \E in \in CallRestoreInputs : RestoreStart(in)
    \/ RestoreSteps
    \/ \E in \in CallDumpInputs : RunDump(in)

SpecCalls == InitCalls /\ [][NextCalls]_vars

\* ------------------------------------------------------------------------
\* Properties of the results
\* ------------------------------------------------------------------------

\* A result dict: a boolean success, a message, and a path with success.
Uniform(result) ==
    /\ { "success", "message" } \subseteq DOMAIN result
    /\ result.success \in BOOLEAN
    /\ result.success => "path" \in DOMAIN result

\* C18: every run_restore and every run_dump call returns a dict with a
\* boolean success and a message, with a path when success is true; no call
\* ends in an exception.
C18_UniformResult ==
    /\ r_pc = "done" => Uniform(r_result)
    /\ ndumps >= 1 => Uniform(d_result)

\* A postgres restore whose createdb run raised has returned a failure dict.
C18_Witness ==
    /\ r_pc = "done"
    /\ r_in.db_type = "postgres"
    /\ Len(r_log) = 2
    /\ r_log[2].tool = "createdb"
    /\ ~r_log[2].ok
    /\ Uniform(r_result)
    /\ ~r_result.success

\* ------------------------------------------------------------------------
\* Properties of credentials
\* ------------------------------------------------------------------------

\* The passwords of the call in flight: the dump-side one and the restore-side
\* one, when they have a value.
Passwords ==
    { pw \in { Get(r_in.params, "password", None), r_in.restore_password } : Truthy(pw) }

\* C19: no message logged by run_restore holds a password of the call.
C19_NoPasswordInLogs ==
    r_pc # "idle" =>
        \A i \in 1..Len(r_logged) : r_logged[i].values \cap Passwords = {}

\* The words of a command line.
Words(command) == { command[i] : i \in 1..Len(command) }

\* C20: every postgres step of a restore (dropdb, createdb, psql) and of a dump
\* (pg_dump, by run_dump and by DatabaseService) is given the password in the
\* PGPASSWORD environment variable, and its command line does not hold it.
C20_PostgresPasswordChannel ==
    /\ (r_pc # "idle" /\ r_in.db_type = "postgres") =>
           \A i \in 1..Len(r_log) :
               /\ r_log[i].environment["PGPASSWORD"] = r_params["password"]
               /\ r_params["password"] \notin Words(r_log[i].command)
    /\ (ndumps >= 1 /\ d_in.db_type = "postgres") =>
           /\ \A i \in DumpRuns :
                  /\ d_log[i].environment["PGPASSWORD"] = d_in.params["password"]
                  /\ d_in.params["password"] \notin Words(d_log[i].command)
           /\ { "host", "port", "username", "password", "database" } \subseteq DOMAIN d_in.params
                  => LET built == build_pg_dump_command(d_in.params, d_path)
                     IN  /\ built.env["PGPASSWORD"] = d_in.params["password"]
                         /\ d_in.params["password"] \notin Words(built.cmd)

\* A postgres restore with the restore-side password has run its four steps.
C20_Witness ==
    /\ r_pc = "done"
    /\ r_in.db_type = "postgres"
    /\ r_in.restore_password = "rp"
    /\ Len(r_log) = 4
    /\ \A i \in 1..4 : r_log[i].environment["PGPASSWORD"] = "rp"
    /\ r_log[4].tool = "psql -f"

\* C21: when a dump command of a run_dump call has failed and the call has
\* returned a failure, no dump file of that call is left at the target path or
\* at a temporary path.
C21_NoPartialOutput ==
    ((\E i \in DumpRuns : ~d_log[i].ok) /\ ~d_result.success)
        => LET target == FixExt(d_path, DB_CONFIGS_extension(d_in.db_type))
           IN  fs \cap { target, TempOf(target), AltTempOf(target) } = {}

\* ------------------------------------------------------------------------
\* Specification of the configuration stores: the configs table behind
\* services/config_service.py, and the in-memory list of main.py.
\* ------------------------------------------------------------------------

\* Configurations created in one behaviour, per store.
MaxConfigs == 2

\* The bodies of the requests: ConfigCreate, DatabaseConfig.
StoreConfigs ==
    [ name : { "acct", "ledger" }, db_type : { "postgres", "mysql" },
      restore_host : { None, "db.local" }, stack_name : { None } ]

\* A stored configuration.
Row(id, config) == [ id |-> id, name |-> config.name, db_type |-> config.db_type ]

\* The columns of the configs table.
Config_columns == { "id", "name", "db_type", "run_path", "restore_host" }

\* Config(**config.dict()), with the id the table gives the row.
Config(id, config) ==
    [ id |-> id, name |-> config.name, db_type |-> config.db_type,
      run_path |-> Get(config, "run_path", None),
      restore_host |-> config.restore_host ]

Returned(op, value) == [ op |-> op, raised |-> None, value |-> value ]
Raised(op, exception) == [ op |-> op, raised |-> exception, value |-> None ]

\* config_service.create_config(db, config): Config(**config.dict()) raises
\* TypeError for a key of the body that is no attribute of Config; the commit
\* raises IntegrityError when a row has the name already (name is unique=True);
\* in both cases the session is rolled back.
create_config(config) ==
    /\ IF \E k \in DOMAIN config : k \notin Config_columns
       THEN /\ c_result' = Raised("create_config", "TypeError")
            /\ UNCHANGED << configs, configs_seq >>
       ELSE IF \E r \in configs : r.name = config.name
       THEN /\ c_result' = Raised("create_config", "ValueError")
            /\ UNCHANGED << configs, configs_seq >>
       ELSE LET db_config == Config(configs_seq + 1, config)
            IN  /\ configs_seq < MaxConfigs
                /\ configs' = configs \cup { db_config }
                /\ configs_seq' = configs_seq + 1
                /\ c_result' = Returned("create_config", db_config)
    /\ UNCHANGED << opsVars, env, fs, resolved, dumpVars, restoreVars, configs_db, last_id >>

\* config_service.update_config(db, config_id, config): reading config.run_path
\* raises AttributeError when the body has no such attribute, and the session
\* is rolled back; restore_username, restore_host and restore_port are not
\* assigned. The result carries the call's arguments.
update_config(config_id, config) ==
    /\ IF ~ \E r \in configs : r.id = config_id
       THEN /\ c_result' = Put(Returned("update_config", None), "args", << config_id, config >>)
            /\ UNCHANGED configs
       ELSE IF \E r \in configs : r.name = config.name /\ r.id # config_id
       THEN /\ c_result' = Put(Raised("update_config", "ValueError"), "args", << config_id, config >>)
            /\ UNCHANGED configs
       ELSE IF "run_path" \notin DOMAIN config
       THEN /\ c_result' = Put(Raised("update_config", "AttributeError"), "args", << config_id, config >>)
            /\ UNCHANGED configs
       ELSE LET old == CHOOSE r \in configs : r.id = config_id
                db_config == [old EXCEPT !.name = config.name,
                                         !.db_type = config.db_type,
                                         !.run_path = config.run_path]
            IN  /\ configs' = { r \in configs : r.id # config_id } \cup { db_config }
                /\ c_result' = Put(Returned("update_config", db_config), "args", << config_id, config >>)
    /\ UNCHANGED << opsVars, env, fs, resolved, dumpVars, restoreVars, configs_seq, configs_db, last_id >>

\* config_service.delete_config(db, config_id)
delete_config(config_id) ==
    /\ configs' = { r \in configs : r.id # config_id }
    /\ c_result' = Returned("delete_config", \E r \in configs : r.id = config_id)
    /\ UNCHANGED << opsVars, env, fs, resolved, dumpVars, restoreVars, configs_seq, configs_db, last_id >>

\* main.py create_config(config): POST /api/configs/
main_create_config(config) ==
    /\ last_id < MaxConfigs
    /\ last_id' = last_id + 1
    /\ configs_db' = Append(configs_db, Row(last_id + 1, config))
    /\ c_result' = Returned("main.create_config", Row(last_id + 1, config))
    /\ UNCHANGED << opsVars, env, fs, resolved, dumpVars, restoreVars, configs, configs_seq >>

\* main.py update_config(config_id, config): PUT /api/configs/{config_id}
main_update_config(config_id, config) ==
    /\ IF \E i \in 1..Len(configs_db) : configs_db[i].id = config_id
       THEN LET i == CHOOSE j \in 1..Len(configs_db) :
                         /\ configs_db[j].id = config_id
                         /\ \A k \in 1..(j - 1) : configs_db[k].id # config_id
            IN  /\ configs_db' = [configs_db EXCEPT ![i] = Row(config_id, config)]
                /\ c_result' = Returned("main.update_config", Row(config_id, config))
       ELSE /\ c_result' = Raised("main.update_config", "HTTPException 404")
            /\ UNCHANGED configs_db
    /\ UNCHANGED << opsVars, env, fs, resolved, dumpVars, restoreVars, configs, configs_seq, last_id >>

\* main.py delete_config(config_id): DELETE /api/configs/{config_id}
main_delete_config(config_id) ==
    /\ configs_db' = SelectSeq(configs_db, LAMBDA c : c.id # config_id)
    /\ c_result' = IF \E i \in 1..Len(configs_db) : configs_db[i].id = config_id
                   THEN Returned("main.delete_config", "Config deleted")
                   ELSE Raised("main.delete_config", "HTTPException 404")
    /\ UNCHANGED << opsVars, env, fs, resolved, dumpVars, restoreVars, configs, configs_seq, last_id >>

NextStore ==
    \/ \E config \in StoreConfigs : create_config(config)
    \/ \E config_id \in 1..MaxConfigs, config \in StoreConfigs : update_config(config_id, config)
    \/ \E config_id \in 1..MaxConfigs : delete_config(config_id)
    \/ \E config \in StoreConfigs : main_create_config(config)
    \/ \E config_id \in 1..MaxConfigs, config \in StoreConfigs : main_update_config(config_id, config)
    \/ \E config_id \in 1..MaxConfigs : main_delete_config(config_id)

\* The configs table outlives the process: it may hold rows from earlier runs.
InitStore ==
    /\ env = AllWritable
    /\ fs = { SqliteFile("acctdb") }
    /\ ndumps = 0
    /\ d_in = <<>>
    /\ d_path = <<>>
    /\ d_result = <<>>
    /\ d_log = <<>>
    /\ resolved = <<>>
    /\ Idle
    /\ NoOps
    /\ \E n \in 0..MaxConfigs :
           /\ configs_seq = n
           /\ configs = { [ id |-> i, name |-> IF i = 1 THEN "acct" ELSE "ledger",
                            db_type |-> "postgres", run_path |-> None,
                            restore_host |-> "old.host" ] : i \in 1..n }
    /\ configs_db = <<>>
    /\ last_id = 0
    /\ c_result = <<>>

SpecStore == InitStore /\ [][NextStore]_vars

\* C22: in both configuration stores, after any creates, updates and deletes,
\* no two stored configurations have the same name.
C22_NameUniqueness ==
    /\ \A r1, r2 \in configs : r1.name = r2.name => r1 = r2
    /\ \A i, j \in 1..Len(configs_db) :
           configs_db[i].name = configs_db[j].name => i = j

\* ------------------------------------------------------------------------
\* Specification of the file names: the sanitizer and the two resolvers
\* applied to the names of one configuration.
\* ------------------------------------------------------------------------

\* Names are made of a safe character, the underscore and an unsafe character.
NameChars == { "a", "_", "#" }

MaxNameLen == 4

\* The (config_name, db_type, dump_file_name) of the configurations: any name
\* of one character or more without a custom file name, and any custom file
\* name (the empty one is no custom file name).
NameCalls ==
    LET names == SeqsUpTo(NameChars, MaxNameLen) \cup DumpFileNames
    IN  { << c, t, <<>> >> : c \in names \ { <<>> }, t \in DbTypes }
        \cup { << c, t, f >> : c \in ConfigNames, t \in DbTypes, f \in names }

InitNames ==
    /\ env \in CallEnvs
    /\ fs = { SqliteFile("acctdb") }
    /\ ndumps = 0
    /\ d_in = <<>>
    /\ d_path = <<>>
    /\ d_result = <<>>
    /\ d_log = <<>>
    /\ resolved \in { << [key |-> k] >> : k \in NameCalls }
    /\ Idle
    /\ NoConfigs
    /\ NoOps

\* sanitize_filename(dump_file_name or config_name), then sanitize_filename of
\* what that returned.
Sanitize ==
    /\ Len(resolved) = 1
    /\ LET call     == resolved[1]
           filename == IF call.key[3] # <<>> THEN call.key[3] ELSE call.key[1]
       IN  IF "safe" \notin DOMAIN call
           THEN resolved' = << Put(call, "safe", sanitize_filename(filename)) >>
           ELSE /\ "again" \notin DOMAIN call
                /\ resolved' = << Put(call, "again", sanitize_filename(call.safe)) >>
    /\ UNCHANGED << storeVars, opsVars, env, fs, dumpVars, restoreVars >>

\* utils.get_consistent_path(config_name, db_type, dump_file_name)
ResolveDump ==
    /\ Len(resolved) = 1
    /\ "dump" \notin DOMAIN resolved[1]
    /\ LET call == resolved[1]
       IN  resolved' = << Put(call, "dump", get_consistent_path(call.key[1], call.key[2],
                                                              call.key[3], env)) >>
    /\ UNCHANGED << storeVars, opsVars, env, fs, dumpVars, restoreVars >>

\* restore_service._get_consistent_path(config_name, db_type, dump_file_name)
ResolveRestore ==
    /\ Len(resolved) = 1
    /\ "restore" \notin DOMAIN resolved[1]
    /\ LET call == resolved[1]
       IN  resolved' = << Put(call, "restore",
                              restore_get_consistent_path(call.key[1], call.key[2],
                                                          call.key[3])) >>
    /\ UNCHANGED << storeVars, opsVars, env, fs, dumpVars, restoreVars >>

NextNames ==
    \/ Sanitize
    \/ ResolveDump
    \/ ResolveRestore

SpecNames == InitNames /\ [][NextNames]_vars

\* C23: the sanitized name holds only letters, digits, '_' and '-', no run of
\* underscores and no underscore at either end, and its other characters are
\* the safe characters of the name in their order; 'nightly backup #3' gives
\* 'nightly_backup_3'; the stems of the dump-side path and of the restore-side
\* path are both the sanitized name.
C23_SanitizationRule ==
    \A i \in 1..Len(resolved) :
        LET call     == resolved[i]
            filename == IF call.key[3] # <<>> THEN call.key[3] ELSE call.key[1]
            isKept(c) == c \in SafeChars /\ c # "_"
        IN  /\ "safe" \in DOMAIN call =>
                /\ \A j \in 1..Len(call.safe) : call.safe[j] \in SafeChars
                /\ \A j \in 1..(Len(call.safe) - 1) :
                       ~(call.safe[j] = "_" /\ call.safe[j + 1] = "_")
                /\ call.safe # <<>> =>
                       call.safe[1] # "_" /\ call.safe[Len(call.safe)] # "_"
                /\ SelectSeq(call.safe, isKept) = SelectSeq(filename, isKept)
                /\ Join(filename) = "nightly backup #3" =>
                       Join(call.safe) = "nightly_backup_3"
                /\ "dump" \in DOMAIN call => call.dump.stem = Join(call.safe)
                /\ "restore" \in DOMAIN call => call.restore.stem = Join(call.safe)
            /\ { "dump", "restore" } \subseteq DOMAIN call =>
                   call.dump.stem = call.restore.stem

\* C23 witness: the custom file name 'nightly backup #3' has been sanitized
\* and resolved on both sides.
C23_Witness ==
    /\ Len(resolved) = 1
    /\ { "safe", "dump", "restore" } \subseteq DOMAIN resolved[1]
    /\ Join(resolved[1].key[3]) = "nightly backup #3"
    /\ resolved[1].dump.stem = "nightly_backup_3"
    /\ resolved[1].restore.stem = "nightly_backup_3"

\* C24: a name that sanitizes to the empty string is not resolved to a path:
\* no resolver returns a path whose file name is the extension alone.
C24_EmptyStemRejected ==
    \A i \in 1..Len(resolved) :
        LET call == resolved[i]
        IN  /\ "dump" \in DOMAIN call => call.dump.stem # ""
            /\ "restore" \in DOMAIN call => call.restore.stem # ""

\* C25: sanitize_filename applied to its own result returns that result.
C25_SanitizeIdempotent ==
    \A i \in 1..Len(resolved) :
        "again" \in DOMAIN resolved[i] => resolved[i].again = resolved[i].safe

\* C25 witness: a name that the sanitizer changes has been sanitized twice.
C25_Witness ==
    /\ Len(resolved) = 1
    /\ "again" \in DOMAIN resolved[1]
    /\ resolved[1].key[1] = << "_", "#", "a", "#" >>
    /\ resolved[1].key[3] = <<>>
    /\ resolved[1].again = << "a" >>

\* C27: the extension of a resolved path is .sql for postgres and mysql, .bson
\* for mongodb, .rdb for redis, .db for sqlite and .dump for any other type,
\* on the dump side and on the restore side.
C27_ExtensionTable ==
    \A i \in 1..Len(resolved) :
        LET call == resolved[i]
            t    == call.key[2]
            ext  == IF t \in { "postgres", "mysql" } THEN ".sql"
                    ELSE IF t = "mongodb" THEN ".bson"
                    ELSE IF t = "redis" THEN ".rdb"
                    ELSE IF t = "sqlite" THEN ".db"
                    ELSE ".dump"
        IN  /\ "dump" \in DOMAIN call => call.dump.ext = ext
            /\ "restore" \in DOMAIN call => call.restore.ext = ext

\* C27 witness: a path of a type outside the table has been resolved on both
\* sides.
C27_Witness ==
    /\ Len(resolved) = 1
    /\ { "dump", "restore" } \subseteq DOMAIN resolved[1]
    /\ resolved[1].key[2] = "oracle"
    /\ resolved[1].dump.ext = ".dump"
    /\ resolved[1].restore.ext = ".dump"

\* ------------------------------------------------------------------------
\* Specification of the stem: calls of the two resolvers for configurations
\* with and without a custom file name, in one state of the file system.
\* ------------------------------------------------------------------------

InitStem ==
    /\ env \in CallEnvs
    /\ fs = { SqliteFile("acctdb") }
    /\ ndumps = 0
    /\ d_in = <<>>
    /\ d_path = <<>>
    /\ d_result = <<>>
    /\ d_log = <<>>
    /\ resolved = <<>>
    /\ Idle
    /\ NoConfigs
    /\ NoOps

NextStem ==
    \E c \in ConfigNames \cup { << "l", "o", "g", "_", "_", "1" >> },
       t \in DbTypes,
       f \in DumpFileNames \cup { << "w", "e", "e", "k", "l", "y" >> } :
        Resolve(c, t, f)

SpecStem == InitStem /\ [][NextStem]_vars

\* C26: the stem of a resolved path is the sanitized custom file name when one
\* is given and the sanitized configuration name otherwise, on both sides; two
\* calls that differ in the custom file name only return paths with the same
\* directory and the same extension.
C26_StemSelection ==
    /\ \A i \in 1..Len(resolved) :
           LET call == resolved[i]
               stem == Join(sanitize_filename(IF call.key[3] # <<>> THEN call.key[3]
                                              ELSE call.key[1]))
           IN  call.path.stem = stem /\ call.restore.stem = stem
    /\ (/\ Len(resolved) = 2
        /\ resolved[1].key[1] = resolved[2].key[1]
        /\ resolved[1].key[2] = resolved[2].key[2])
           => /\ resolved[1].path.dir = resolved[2].path.dir
              /\ resolved[1].path.ext = resolved[2].path.ext
              /\ resolved[1].restore.dir = resolved[2].restore.dir
              /\ resolved[1].restore.ext = resolved[2].restore.ext

\* C26 witness: a configuration resolved without a custom file name and then
\* with 'nightly backup #3'.
C26_Witness ==
    /\ Len(resolved) = 2
    /\ resolved[1].key[1] = resolved[2].key[1]
    /\ resolved[1].key[2] = resolved[2].key[2]
    /\ resolved[1].key[3] = <<>>
    /\ resolved[1].path.stem = "acct"
    /\ resolved[2].key[3] # <<>>
    /\ resolved[2].path.stem = "nightly_backup_3"
    /\ resolved[2].restore.stem = "nightly_backup_3"
    /\ resolved[2].path.dir = HomeDumpDir

C29_EngineDefaultPort ==
    (/\ Handed
     /\ NoStack
     /\ ~Truthy(r_in.restore_port)
     /\ "port" \notin DOMAIN r_in.params
     /\ r_in.db_type \in { "postgres", "mysql", "mongodb", "redis" })
        => r_params["port"] = CASE r_in.db_type = "postgres" -> "5432"
                                [] r_in.db_type = "mysql"    -> "3306"
                                [] r_in.db_type = "mongodb"  -> "27017"
                                [] r_in.db_type = "redis"    -> "6379"

\* C30: a mongodb restore with a uri parameter is handed a URI whose host is
\* host.docker.internal when the URI's host was localhost (and no stack name
\* is given) and the URI's own host otherwise, and whose username, password
\* and port are those of the URI it was given.
C30_UriRewrite ==
    (Handed /\ r_in.db_type = "mongodb" /\ "uri" \in DOMAIN r_in.params)
        => LET before == r_in.params["uri"]
               after  == r_params["uri"]
           IN  /\ after.hostname = IF before.hostname = "localhost" /\ NoStack
                                   THEN "host.docker.internal"
                                   ELSE before.hostname
               /\ after.username = before.username
               /\ after.password = before.password
               /\ after.port = before.port

\* ------------------------------------------------------------------------
\* Properties of stack discovery and of the client image
\* ------------------------------------------------------------------------

\* C34: every container run of a postgres restore uses the image
\* postgres:<digits> when the restore went through a stack whose database
\* container has the image postgres:<digits>, and postgres:16 when no stack
\* name was given or the image of the container holds no version.
C34_VersionMatchedClient ==
    (r_pc # "idle" /\ r_in.db_type = "postgres")
        => \A i \in 1..Len(r_log) :
               LET image == IF NoStack THEN <<>> ELSE r_stack_info.container.image
               IN  r_log[i].image =
                       IF Len(image) >= 3 /\ image[1] = "postgres" /\ image[2] = ":"
                          /\ image[3] \in DigitTokens
                       THEN "postgres:" \o image[3]
                       ELSE "postgres:16"

\* C34 witness: a restore through a stack whose container runs postgres:15 has
\* dropped, created and loaded the database with the image postgres:15.
C34_Witness ==
    /\ r_pc = "done"
    /\ r_in.db_type = "postgres"
    /\ ~NoStack
    /\ r_stack_info.success
    /\ r_stack_info.container.image = << "postgres", ":", "15" >>
    /\ Len(r_log) = 4
    /\ \A i \in 1..4 : r_log[i].image = "postgres:15"

\* ------------------------------------------------------------------------
\* Specification of stack discovery: get_stack_database_info on the listings
\* `docker ps` can answer.
\* ------------------------------------------------------------------------

\* The containers of a stack: those of the restore specification, and images
\* that name mongo, mongodb, redis, two engines, or an engine in capitals.
StackContainers ==
    Containers
    \cup { [Names |-> << "mongo" >>, Image |-> << "mongo", ":", "6.0" >>, ID |-> "c5",
            Ports |-> <<>>],
           [Names |-> << "docs" >>, Image |-> << "bitnami/", "mongodb", ":", "6" >>,
            ID |-> "c6", Ports |-> <<>>],
           [Names |-> << "cache" >>, Image |-> << "redis", ":", "7" >>, ID |-> "c7",
            Ports |-> <<>>],
           [Names |-> << "sync" >>, Image |-> << "mysql", "-to-", "postgres" >>,
            ID |-> "c8", Ports |-> <<>>],
           [Names |-> << "queue" >>, Image |-> << "redis", "-", "mysql" >>, ID |-> "c9",
            Ports |-> <<>>],
           [Names |-> << "legacy" >>, Image |-> << "MySQL", ":", "8" >>, ID |-> "c10",
            Ports |-> <<>>] }

\* get_stack_database_info(stack_name): `docker ps` answers, and the answer is
\* searched for a database container.
StackInfo ==
    /\ r_pc = "idle"
    /\ \E answer \in { [status |-> "error", containers |-> <<>>],
                       [status |-> "badjson", containers |-> <<>>] }
                     \cup { [status |-> "ok", containers |-> cs] :
                              cs \in SeqsUpTo(StackContainers, MaxContainers) } :
         /\ docker_ps' = answer
         /\ r_stack_info' = get_stack_database_info(answer)
    /\ UNCHANGED << storeVars, env, fs, resolved, dumpVars, r_pc, r_in, r_caller, r_params,
                    r_path, r_log, r_logged, r_result, rr_pc, rr_db, rr_log, cd_pc, cd_fs,
                    cd_result, dump_processes, process, dp_call, dp_cancel >>

SpecStack == InitPath /\ [][StackInfo]_vars

\* C33: get_stack_database_info answers 'No database containers found' exactly
\* when `docker ps` listed the containers and no image among them holds
\* postgres, mysql, mongodb or redis; otherwise it returns the first listed
\* container whose image holds one, with the first of postgres, mysql, mongodb,
\* redis that the image holds as its db_type.
C33_StackDiscoverySelection ==
    docker_ps # <<>> =>
        LET cs   == docker_ps.containers
            has(i, ident) == \E j \in 1..Len(cs[i].Image) : Lower(cs[i].Image[j]) = ident
            hits == { i \in 1..Len(cs) :
                        \E k \in 1..Len(KnownEngines) : has(i, KnownEngines[k]) }
        IN  /\ (r_stack_info.message = "No database containers found in stack")
                   <=> (docker_ps.status = "ok" /\ hits = {})
            /\ (docker_ps.status = "ok" /\ hits # {}) =>
                   LET first == CHOOSE i \in hits : \A j \in hits : i <= j
                       k1    == CHOOSE k \in 1..Len(KnownEngines) :
                                    /\ has(first, KnownEngines[k])
                                    /\ \A k2 \in 1..(k - 1) : ~has(first, KnownEngines[k2])
                   IN  /\ r_stack_info.success
                       /\ r_stack_info.container.id = cs[first].ID
                       /\ r_stack_info.container.image = cs[first].Image
                       /\ r_stack_info.container.db_type = KnownEngines[k1]

\* C33 witness: a listing whose first container names no engine and whose
\* second names mysql and postgres has been answered with the second,
\* classified postgres.
C33_Witness ==
    /\ docker_ps # <<>>
    /\ docker_ps.status = "ok"
    /\ Len(docker_ps.containers) = 2
    /\ docker_ps.containers[1].Image = << "mongo", ":", "6.0" >>
    /\ docker_ps.containers[2].Image = << "mysql", "-to-", "postgres" >>
    /\ r_stack_info.success
    /\ r_stack_info.container.id = "c8"
    /\ r_stack_info.container.db_type = "postgres"

\* C38: after update_config has been called for a stored configuration id with
\* a name no other row has, the call has returned the stored record, its id is
\* the one given, and its fields equal the submitted values.
C38_UpdateStoresEveryField ==
    ( /\ "args" \in DOMAIN c_result
      /\ c_result.raised # "ValueError"
      /\ ~ (c_result.raised = None /\ c_result.value = None) )
    => /\ c_result.raised = None
       /\ \E r \in configs :
              /\ r = c_result.value
              /\ r.id = c_result.args[1]
              /\ r.name = c_result.args[2].name
              /\ r.db_type = c_result.args[2].db_type
              /\ r.restore_host = c_result.args[2].restore_host

\* ------------------------------------------------------------------------
\* Specification of two restores of one configuration: run_restore_endpoint
\* is a plain function, which the server runs on worker threads, and the
\* steps of _restore_postgres are separate container runs on one database.
\* ------------------------------------------------------------------------

\* The requests in flight, both for the same configuration.
Requests == { "A", "B" }

\* dropdb --force, detach=False, while no other request is between its first
\* step and its return.
PostgresDrop_Exclusive(i) ==
    /\ i \in DOMAIN rr_pc
    /\ rr_pc[i] = "drop"
    /\ \A j \in DOMAIN rr_pc \ { i } : rr_pc[j] \in { "drop", "success", "failed" }
    /\ rr_db' = <<>>
    /\ rr_log' = Append(rr_log, << i, "dropdb", rr_db # <<>> >>)
    /\ rr_pc' = [rr_pc EXCEPT ![i] = "create"]
    /\ UNCHANGED << storeVars, env, fs, resolved, dumpVars, restoreVars, docker_ps,
                    cd_pc, cd_fs, cd_result, dump_processes, process, dp_call, dp_cancel >>

\* run_restore_endpoint(request) entered; _restore_postgres is at step 1.
RestoreEndpoint(i) ==
    /\ i \notin DOMAIN rr_pc
    /\ rr_pc' = Put(rr_pc, i, "drop")
    /\ UNCHANGED << storeVars, env, fs, resolved, dumpVars, restoreVars, docker_ps, rr_db, rr_log,
                    cd_pc, cd_fs, cd_result, dump_processes, process, dp_call, dp_cancel >>

\* Step 1: dropdb --force ends the sessions of the database and removes it;
\* it fails when there is no such database, and the failure is swallowed.
PostgresDrop(i) ==
    /\ i \in DOMAIN rr_pc
    /\ rr_pc[i] = "drop"
    /\ rr_db' = <<>>
    /\ rr_log' = Append(rr_log, << i, "dropdb", rr_db # <<>> >>)
    /\ rr_pc' = [rr_pc EXCEPT ![i] = "create"]
    /\ UNCHANGED << storeVars, env, fs, resolved, dumpVars, restoreVars, docker_ps,
                    cd_pc, cd_fs, cd_result, dump_processes, process, dp_call, dp_cancel >>

\* Step 2: createdb fails when the database exists, and the failure ends the
\* restore.
PostgresCreate(i) ==
    /\ i \in DOMAIN rr_pc
    /\ rr_pc[i] = "create"
    /\ rr_log' = Append(rr_log, << i, "createdb", rr_db = <<>> >>)
    /\ IF rr_db = <<>>
       THEN /\ rr_db' = [ created_by |-> i, loading |-> {}, loaded |-> {} ]
            /\ rr_pc' = [rr_pc EXCEPT ![i] = "verify"]
       ELSE /\ rr_pc' = [rr_pc EXCEPT ![i] = "failed"]
            /\ UNCHANGED rr_db
    /\ UNCHANGED << storeVars, env, fs, resolved, dumpVars, restoreVars, docker_ps,
                    cd_pc, cd_fs, cd_result, dump_processes, process, dp_call, dp_cancel >>

\* Step 3: psql -c "SELECT version();", a failure is swallowed.
PostgresVerify(i) ==
    /\ i \in DOMAIN rr_pc
    /\ rr_pc[i] = "verify"
    /\ rr_log' = Append(rr_log, << i, "psql -c", rr_db # <<>> >>)
    /\ rr_pc' = [rr_pc EXCEPT ![i] = "load"]
    /\ UNCHANGED << storeVars, env, fs, resolved, dumpVars, restoreVars, docker_ps, rr_db,
                    cd_pc, cd_fs, cd_result, dump_processes, process, dp_call, dp_cancel >>

\* Step 4 begins: psql -f connects, which fails when there is no database.
PostgresLoad(i) ==
    /\ i \in DOMAIN rr_pc
    /\ rr_pc[i] = "load"
    /\ IF rr_db = <<>>
       THEN /\ rr_log' = Append(rr_log, << i, "psql -f", FALSE >>)
            /\ rr_pc' = [rr_pc EXCEPT ![i] = "failed"]
            /\ UNCHANGED rr_db
       ELSE /\ rr_db' = [rr_db EXCEPT !.loading = @ \cup { i }]
            /\ rr_pc' = [rr_pc EXCEPT ![i] = "loading"]
            /\ UNCHANGED rr_log
    /\ UNCHANGED << storeVars, env, fs, resolved, dumpVars, restoreVars, docker_ps,
                    cd_pc, cd_fs, cd_result, dump_processes, process, dp_call, dp_cancel >>

\* Step 4 ends: psql -f has run the file, or has lost its session to a drop.
PostgresLoaded(i) ==
    /\ i \in DOMAIN rr_pc
    /\ rr_pc[i] = "loading"
    /\ IF rr_db # <<>> /\ i \in rr_db.loading
       THEN /\ rr_db' = [rr_db EXCEPT !.loading = @ \ { i }, !.loaded = @ \cup { i }]
            /\ rr_log' = Append(rr_log, << i, "psql -f", TRUE >>)
            /\ rr_pc' = [rr_pc EXCEPT ![i] = "success"]
       ELSE /\ rr_log' = Append(rr_log, << i, "psql -f", FALSE >>)
            /\ rr_pc' = [rr_pc EXCEPT ![i] = "failed"]
            /\ UNCHANGED rr_db
    /\ UNCHANGED << storeVars, env, fs, resolved, dumpVars, restoreVars, docker_ps,
                    cd_pc, cd_fs, cd_result, dump_processes, process, dp_call, dp_cancel >>

NextRace ==
    \/ \E i \in Requests : RestoreEndpoint(i)
    \/ \E i \in Requests : PostgresDrop(i)
    \/ \E i \in Requests : PostgresCreate(i)
    \/ \E i \in Requests : PostgresVerify(i)
    \/ \E i \in Requests : PostgresLoad(i)
    \/ \E i \in Requests : PostgresLoaded(i)

SpecRace == InitPath /\ [][NextRace]_vars

\* C31: restores of one configuration are not mutually excluded: while one
\* request is between its create step and the end of its load step, the drop
\* step of another request that has reached it can run.
C31_RestoresNotExcluded ==
    \A i, j \in DOMAIN rr_pc :
        ( /\ i # j
          /\ rr_pc[i] \in { "verify", "load", "loading" }
          /\ rr_pc[j] = "drop" )
        => ENABLED PostgresDrop(j)

\* C31 witness: the log holds a createdb of one request followed by the dropdb
\* of the other, and the first request has not finished its load step.
C31_Witness ==
    \E a, b \in 1..Len(rr_log) :
        /\ a < b
        /\ rr_log[a][2] = "createdb" /\ rr_log[a][3]
        /\ rr_log[b][2] = "dropdb" /\ rr_log[b][3]
        /\ rr_log[b][1] # rr_log[a][1]
        /\ rr_pc[rr_log[a][1]] \in { "verify", "load", "loading" }

\* ------------------------------------------------------------------------
\* Specification of two dumps of one configuration: both calls of
\* _dump_postgres get the same path, hence the same /tmp/temp_<filename>.
\* A file is the request whose dump it holds.
\* ------------------------------------------------------------------------

\* The path both calls are given: the consistent path of the configuration.
DumpPath == Path(CfgDir, "acct", ".sql")

\* run_dump(...) entered; _dump_postgres is before its container run.
DumpCall(i) ==
    /\ i \notin DOMAIN cd_pc
    /\ cd_pc' = Put(cd_pc, i, "run")
    /\ UNCHANGED << storeVars, env, fs, resolved, dumpVars, restoreVars, docker_ps,
                    rr_pc, rr_db, rr_log, cd_fs, cd_result, dump_processes, process,
                    dp_call, dp_cancel >>

\* Lines 131-143: pg_dump -f /tmp/temp_<filename> in a container. When the run
\* raises, lines 218-260: a second run writes ~/Downloads/temp_<filename>, the
\* file is copied to path and removed; when that raises too, the call fails.
\* The result records, next to the dict, the file found at its path at return.
DumpContainerRun(i) ==
    /\ i \in DOMAIN cd_pc
    /\ cd_pc[i] = "run"
    /\ \E run1_ok, run2_ok \in BOOLEAN :
         IF run1_ok
         THEN /\ cd_fs' = Put(cd_fs, TempOf(DumpPath), i)
              /\ cd_pc' = [cd_pc EXCEPT ![i] = "copy"]
              /\ UNCHANGED cd_result
         ELSE IF run2_ok /\ DirWritable(env, DumpPath.dir)
         THEN /\ cd_fs' = Put(cd_fs, DumpPath, i)
              /\ cd_pc' = [cd_pc EXCEPT ![i] = "returned"]
              /\ cd_result' = Put(cd_result, i,
                     [ result |-> Succeeded("PostgreSQL dump completed successfully", DumpPath),
                       found  |-> i ])
         ELSE /\ cd_pc' = [cd_pc EXCEPT ![i] = "returned"]
              /\ cd_result' = Put(cd_result, i,
                     [ result |-> Failed("Unable to write to the specified location"),
                       found  |-> None ])
              /\ UNCHANGED cd_fs
    /\ UNCHANGED << storeVars, env, fs, resolved, dumpVars, restoreVars, docker_ps,
                    rr_pc, rr_db, rr_log, dump_processes, process, dp_call, dp_cancel >>

\* Lines 146-213: shutil.copy2(temp_path, path), else to ~/Downloads, else to
\* /tmp; a copy raises when its directory cannot be written or when there is
\* no file at temp_path; when the three copies raise the call returns success
\* with temp_path.
DumpCopy(i) ==
    /\ i \in DOMAIN cd_pc
    /\ cd_pc[i] = "copy"
    /\ LET temp     == TempOf(DumpPath)
           fallback == Path(DownloadsDir, DumpPath.stem, DumpPath.ext)
           final    == Path(TmpDir, DumpPath.stem, DumpPath.ext)
       IN  IF temp \in DOMAIN cd_fs /\ DirWritable(env, DumpPath.dir)
           THEN /\ cd_fs' = Put(cd_fs, DumpPath, cd_fs[temp])
                /\ cd_pc' = [cd_pc EXCEPT ![i] = "remove"]
                /\ UNCHANGED cd_result
           ELSE IF temp \in DOMAIN cd_fs /\ DirWritable(env, DownloadsDir)
           THEN /\ cd_fs' = Put(cd_fs, fallback, cd_fs[temp])
                /\ cd_pc' = [cd_pc EXCEPT ![i] = "remove_fallback"]
                /\ UNCHANGED cd_result
           ELSE IF temp \in DOMAIN cd_fs /\ DirWritable(env, TmpDir)
           THEN /\ cd_fs' = Put(cd_fs, final, cd_fs[temp])
                /\ cd_pc' = [cd_pc EXCEPT ![i] = "remove_final"]
                /\ UNCHANGED cd_result
           ELSE /\ cd_pc' = [cd_pc EXCEPT ![i] = "returned"]
                /\ cd_result' = Put(cd_result, i,
                       [ result |-> Succeeded("PostgreSQL dump completed successfully, but could not copy. File is available at temp", temp),
                         found  |-> Get(cd_fs, temp, None) ])
                /\ UNCHANGED cd_fs
    /\ UNCHANGED << storeVars, env, fs, resolved, dumpVars, restoreVars, docker_ps,
                    rr_pc, rr_db, rr_log, dump_processes, process, dp_call, dp_cancel >>

\* Lines 159-169, 180-190, 198-208: os.remove(temp_path), errors ignored, and
\* the return of the path the copy was made to.
DumpRemoveTemp(i) ==
    /\ i \in DOMAIN cd_pc
    /\ cd_pc[i] \in { "remove", "remove_fallback", "remove_final" }
    /\ LET path == CASE cd_pc[i] = "remove" -> DumpPath
                     [] cd_pc[i] = "remove_fallback" ->
                            Path(DownloadsDir, DumpPath.stem, DumpPath.ext)
                     [] OTHER -> Path(TmpDir, DumpPath.stem, DumpPath.ext)
       IN  /\ cd_fs' = [p \in Remove(DOMAIN cd_fs, TempOf(DumpPath), env) |-> cd_fs[p]]
           /\ cd_result' = Put(cd_result, i,
                  [ result |-> Succeeded(IF cd_pc[i] = "remove"
                                         THEN "PostgreSQL dump completed successfully"
                                         ELSE "PostgreSQL dump completed successfully, but could not write to path. File saved to fallback",
                                         path),
                    found  |-> Get(cd_fs, path, None) ])
    /\ cd_pc' = [cd_pc EXCEPT ![i] = "returned"]
    /\ UNCHANGED << storeVars, env, fs, resolved, dumpVars, restoreVars, docker_ps,
                    rr_pc, rr_db, rr_log, dump_processes, process, dp_call, dp_cancel >>

NextDumps ==
    \/ EnvChange
    \/ \E i \in Requests : DumpCall(i)
    \/ \E i \in Requests : DumpContainerRun(i)
    \/ \E i \in Requests : DumpCopy(i)
    \/ \E i \in Requests : DumpRemoveTemp(i)

SpecDumps == InitPath /\ [][NextDumps]_vars

\* C37: whenever a dump has returned success with a path, the file at that
\* path at the return held the dump of that request.
C37_SuccessNamesArtifact ==
    \A i \in DOMAIN cd_result :
        cd_result[i].result.success => cd_result[i].found = i

\* ------------------------------------------------------------------------
\* Specification of one tracked dump: create_dump with its subprocess and its
\* two pipes, and cancel_dump and get_dump_status called while it runs.
\* ------------------------------------------------------------------------

\* The lines the subprocess writes to each of its pipes, at most.
MaxLines == 3

\* The lines a pipe holds before a write to it blocks.
PipeCapacity == 1

\* Lines 66-125: the checks, subprocess.Popen(cmd, stdout=PIPE, stderr=PIPE)
\* and the registry entry; an exception before the entry is set returns the
\* failure dict. The subprocess is given the lines it will write.
CreateDump(operation_id) ==
    /\ dp_call = <<>>
    /\ \E popen_ok \in BOOLEAN, out, err \in 0..MaxLines :
         IF popen_ok
         THEN /\ process' = [ alive |-> TRUE, returncode |-> None, out |-> out, err |-> err,
                              out_pipe |-> 0, err_pipe |-> 0, file |-> FALSE ]
              /\ dump_processes' = Put(dump_processes, operation_id,
                     [ process |-> "Popen", status |-> "running", progress |-> 0 ])
              /\ dp_call' = [ pc |-> "stdout", operation_id |-> operation_id, result |-> None ]
         ELSE /\ dp_call' = [ pc |-> "returned", operation_id |-> operation_id,
                              result |-> [ success |-> FALSE ] ]
              /\ UNCHANGED << process, dump_processes >>
    /\ UNCHANGED << storeVars, env, fs, resolved, dumpVars, restoreVars, docker_ps,
                    rr_pc, rr_db, rr_log, cd_pc, cd_fs, cd_result, dp_cancel >>

\* The subprocess writes a line to one of its pipes, which blocks while the
\* pipe is full, having opened its output file.
ChildWrite ==
    /\ DOMAIN process # {}
    /\ process.alive
    /\ \/ /\ process.out > 0
          /\ process.out_pipe < PipeCapacity
          /\ process' = [process EXCEPT !.out = @ - 1, !.out_pipe = @ + 1, !.file = TRUE]
       \/ /\ process.err > 0
          /\ process.err_pipe < PipeCapacity
          /\ process' = [process EXCEPT !.err = @ - 1, !.err_pipe = @ + 1, !.file = TRUE]
    /\ UNCHANGED << storeVars, env, fs, resolved, dumpVars, restoreVars, docker_ps,
                    rr_pc, rr_db, rr_log, cd_pc, cd_fs, cd_result, dump_processes,
                    dp_call, dp_cancel >>

\* The subprocess exits when it has written its lines.
ChildExit ==
    /\ DOMAIN process # {}
    /\ process.alive
    /\ process.out = 0
    /\ process.err = 0
    /\ \E returncode \in { 0, 1 }, file \in BOOLEAN :
         process' = [process EXCEPT !.alive = FALSE, !.returncode = returncode,
                                    !.file = file]
    /\ UNCHANGED << storeVars, env, fs, resolved, dumpVars, restoreVars, docker_ps,
                    rr_pc, rr_db, rr_log, cd_pc, cd_fs, cd_result, dump_processes,
                    dp_call, dp_cancel >>

\* Line 134: process.stdout.readline() returns a line when the pipe holds one
\* and '' at the end of file, and blocks otherwise.
ReadStdout ==
    /\ DOMAIN dp_call # {}
    /\ dp_call.pc = "stdout"
    /\ process.out_pipe > 0 \/ ~process.alive
    /\ process' = [process EXCEPT !.out_pipe = IF @ > 0 THEN @ - 1 ELSE 0]
    /\ dp_call' = [dp_call EXCEPT !.pc = "stderr"]
    /\ UNCHANGED << storeVars, env, fs, resolved, dumpVars, restoreVars, docker_ps,
                    rr_pc, rr_db, rr_log, cd_pc, cd_fs, cd_result, dump_processes,
                    dp_cancel >>

\* Lines 135-157: process.stderr.readline(), and for a line that holds
\* 'processing' the progress of the registry entry becomes
\* min(progress + 5, 90).
ReadStderr ==
    /\ DOMAIN dp_call # {}
    /\ dp_call.pc = "stderr"
    /\ process.err_pipe > 0 \/ ~process.alive
    /\ process' = [process EXCEPT !.err_pipe = IF @ > 0 THEN @ - 1 ELSE 0]
    /\ \E processing \in BOOLEAN :
         IF process.err_pipe > 0 /\ processing /\ dp_call.operation_id \in DOMAIN dump_processes
         THEN dump_processes' =
                  [dump_processes EXCEPT ![dp_call.operation_id].progress =
                       IF @ + 5 < 90 THEN @ + 5 ELSE 90]
         ELSE UNCHANGED dump_processes
    /\ dp_call' = [dp_call EXCEPT !.pc = "poll"]
    /\ UNCHANGED << storeVars, env, fs, resolved, dumpVars, restoreVars, docker_ps,
                    rr_pc, rr_db, rr_log, cd_pc, cd_fs, cd_result, dp_cancel >>

\* Lines 159-164: process.poll(), the break or the sleep.
Poll ==
    /\ DOMAIN dp_call # {}
    /\ dp_call.pc = "poll"
    /\ dp_call' = [dp_call EXCEPT !.pc = IF process.alive THEN "stdout" ELSE "communicate"]
    /\ UNCHANGED << storeVars, env, fs, resolved, dumpVars, restoreVars, docker_ps,
                    rr_pc, rr_db, rr_log, cd_pc, cd_fs, cd_result, dump_processes,
                    process, dp_cancel >>

\* Lines 166-241: process.communicate(), then by the return code and the dump
\* file the registry entry becomes 'failed' or 'completed' with progress 100;
\* os.remove of the partial file may raise, which is logged.
Communicate ==
    /\ DOMAIN dp_call # {}
    /\ dp_call.pc = "communicate"
    /\ \E removed \in BOOLEAN :
         LET failed  == process.returncode # 0
             file    == IF failed /\ removed THEN FALSE ELSE process.file
             success == ~failed /\ process.file
             id      == dp_call.operation_id
         IN  /\ process' = [process EXCEPT !.out_pipe = 0, !.err_pipe = 0, !.file = file]
             /\ dump_processes' =
                    IF id \in DOMAIN dump_processes
                    THEN [dump_processes EXCEPT
                             ![id].status = IF success THEN "completed" ELSE "failed",
                             ![id].progress = 100]
                    ELSE dump_processes
             /\ dp_call' = [dp_call EXCEPT !.pc = "returned",
                                           !.result = [ success |-> success ]]
    /\ UNCHANGED << storeVars, env, fs, resolved, dumpVars, restoreVars, docker_ps,
                    rr_pc, rr_db, rr_log, cd_pc, cd_fs, cd_result, dp_cancel >>

\* cancel_dump(operation_id): False for an id not in the registry and for a
\* process that is None or has exited; else terminate() and wait(timeout=5),
\* kill() after the timeout, os.remove(dump_file) which may raise and is
\* logged, the entry becomes 'cancelled' with progress 100, and True.
cancel_dump(operation_id) ==
    /\ IF /\ operation_id \in DOMAIN dump_processes
          /\ dump_processes[operation_id].process # None
          /\ process.alive
       THEN \E returncode \in { -15, -9 }, removed \in BOOLEAN :
              /\ process' = [process EXCEPT !.alive = FALSE, !.returncode = returncode,
                                            !.file = @ /\ ~removed]
              /\ dump_processes' =
                     [dump_processes EXCEPT ![operation_id].status = "cancelled",
                                            ![operation_id].progress = 100]
              /\ dp_cancel' = [ operation_id |-> operation_id, returned |-> TRUE ]
       ELSE /\ dp_cancel' = [ operation_id |-> operation_id, returned |-> FALSE ]
            /\ UNCHANGED << process, dump_processes >>
    /\ UNCHANGED << storeVars, env, fs, resolved, dumpVars, restoreVars, docker_ps,
                    rr_pc, rr_db, rr_log, cd_pc, cd_fs, cd_result, dp_call >>

\* get_dump_status(operation_id): the status is set in the copy it returns;
\* in the registry the process of an exited subprocess becomes None.
get_dump_status(operation_id) ==
    /\ operation_id \in DOMAIN dump_processes
    /\ dump_processes[operation_id].process # None
    /\ ~process.alive
    /\ dump_processes' = [dump_processes EXCEPT ![operation_id].process = None]
    /\ UNCHANGED << storeVars, env, fs, resolved, dumpVars, restoreVars, docker_ps,
                    rr_pc, rr_db, rr_log, cd_pc, cd_fs, cd_result, process, dp_call,
                    dp_cancel >>

NextOps ==
    \/ CreateDump("op-1")
    \/ ChildWrite
    \/ ChildExit
    \/ ReadStdout
    \/ ReadStderr
    \/ Poll
    \/ Communicate
    \/ \E operation_id \in { "op-1", "op-2" } : cancel_dump(operation_id)
    \/ \E operation_id \in { "op-1", "op-2" } : get_dump_status(operation_id)

SpecOps == InitPath /\ [][NextOps]_vars

\* The subprocess runs when it can, and so does the thread of create_dump.
FairSpecOps ==
    /\ SpecOps
    /\ WF_vars(ChildWrite \/ ChildExit)
    /\ WF_vars(ReadStdout \/ ReadStderr \/ Poll \/ Communicate)

\* C32: when cancel_dump has returned True, the subprocess is not running and
\* the dump file does not exist.
C32_CancelEffect ==
    (DOMAIN dp_cancel # {} /\ dp_cancel.returned)
    => (~process.alive /\ ~process.file)

\* C35: once cancel_dump has returned True for an operation, the status of its
\* registry entry is 'cancelled' in every later state.
C35_CancelledStable ==
    [][ (DOMAIN dp_cancel # {} /\ dp_cancel.returned
         /\ dump_processes[dp_cancel.operation_id].status = "cancelled")
        => dump_processes'[dp_cancel.operation_id].status = "cancelled" ]_vars

\* C36: a registry entry with status 'running' has progress at most 90, and one
\* with status 'completed', 'failed' or 'cancelled' has progress 100.
C36_RegistryLifecycle ==
    \A id \in DOMAIN dump_processes :
        /\ dump_processes[id].status = "running" => dump_processes[id].progress <= 90
        /\ dump_processes[id].status \in { "completed", "failed", "cancelled" }
               => dump_processes[id].progress = 100

\* C39: a create_dump whose subprocess has finitely many lines to write
\* eventually returns.
C39_CreateDumpTerminates ==
    (DOMAIN dp_call # {}) ~> (DOMAIN dp_call # {} /\ dp_call.pc = "returned")

====
